---- MODULE Spec2Model ----
(***************************************************************************)
(* Model of the webmention.io sync engine of indiekit-endpoint-webmention- *)
(* io: the sync orchestrator (lib/sync.js), the webmention store           *)
(* (lib/storage/webmentions.js), the blocklist store                       *)
(* (lib/storage/blocklist.js) and the moderation handlers that call them.  *)
(*                                                                         *)
(* runSync and runFullSync are async functions: every `await` is a point   *)
(* where another call, a moderation request or the remote feed can act.    *)
(* One action of the model is the code between two awaits.                 *)
(***************************************************************************)
EXTENDS Integers, Sequences, FiniteSets, TLC

\* ---------------------------------------------------------------- bounds
\* MaxId: number of entries the remote feed ever holds (ids 1..MaxId).
MaxId == 3
\* PerPage stands for `const perPage = 100`, scaled down so that a feed
\* of MaxId entries spans a full page and a short page.
PerPage == 2
\* MaxTasks: concurrent callers of runSync / runFullSync (timer, manual).
MaxTasks == 2
\* MaxHidden: cap of the mentionsHidden counter of a blocklist entry.
MaxHidden == 3
\* MaxEntries: cap of the number of documents in the blocklist collection.
MaxEntries == 2
\* MaxTime: the last tick of the clock (a tick stands for CACHE_TTL_MS).
MaxTime == 2

\* ApiPerPage stands for the per-page of the public API (50 by default),
\* scaled down so that MaxId records span more than one page.
ApiPerPage == 2

Tasks == 1..MaxTasks
Ids == 1..MaxId
Domains == {"a.test", "b.test"}

\* JavaScript null, and a timestamp field that is null.
Null == "null"
NoTime == -1

VARIABLES
  store,        \* the "webmentions" collection: a set of documents
  blocklist,    \* the "webmentionBlocklist" collection: a set of documents
  blockIndex,   \* the unique index on domain of that collection exists
  syncState,    \* the module-level syncState object of lib/sync.js
  task,         \* per caller: position in runSync/runFullSync and its locals
  lastReturn,   \* the value most recently returned by runSync/runFullSync
  mod,          \* the moderation request being handled, and its locals
  memoryCache,  \* the memoryCache Map of lib/hcard.js, as its set of entries
  hcardCache,   \* the "hcardCache" collection: a set of documents
  chain,        \* history: how far "a full sync, then at once an incremental
                \* sync, the feed and the moderation state untouched since the
                \* full sync began" has got: none, full, fullDone, incr, incrDone
  remoteN,      \* webmention.io holds the entries with ids 1..remoteN
  feedDesc,     \* webmention.io lists newest first (TRUE) or oldest first
  now,          \* wall clock, in the unit of CACHE_TTL_MS
  snapshot,     \* the object the last caller of getSyncState holds
  reply,        \* the answer of the public API, or the dashboard page, that
                \* is being sent
  timers        \* the timers of startSync: the module-level syncInterval, the
                \* one-shot timer of the initial sync, and the history of
                \* stopSync having returned

\* the collections of the database
dbVars == <<store, blocklist, blockIndex, hcardCache>>
\* what lies outside the engine: webmention.io, the clock, the object a
\* reader of the sync state holds and the answer a client of the API gets
envVars == <<remoteN, feedDesc, now, snapshot, reply, timers>>

vars == <<store, blocklist, blockIndex, hcardCache, memoryCache, syncState, task, lastReturn,
          mod, chain, remoteN, feedDesc, now, snapshot, reply, timers>>

\* ------------------------------------------------------- the remote feed
\* The JF2 entry webmention.io holds for id: odd ids come from a.test, even
\* ids from b.test; every third entry has no author.url (its domain is then
\* derived from entry.url); entries 1, 4, 7.. carry an author photo. The
\* entries mention two pages of the site: entries 1, 4, 7.. the post, entries
\* 2, 5, 8.. the post written with a trailing slash, the others the about
\* page; odd entries are likes, even entries are replies. wm-received grows
\* with the id.
SiteOf(id) == IF id % 2 = 0 THEN "b.test" ELSE "a.test"

PostUrl == "https://me.test/post"
AboutUrl == "https://me.test/about"

TargetOf(id) ==
  CASE id % 3 = 1 -> PostUrl
    [] id % 3 = 2 -> PostUrl \o "/"
    [] OTHER      -> AboutUrl

PropertyOf(id) == IF id % 2 = 0 THEN "in-reply-to" ELSE "like-of"

Item(id) ==
  [ wmId   |-> id,
    wmReceived |-> id,
    wmProperty |-> PropertyOf(id),
    wmTarget   |-> TargetOf(id),
    author |-> [ url   |-> IF id % 3 = 0 THEN "" ELSE "https://" \o SiteOf(id) \o "/",
                 photo |-> IF id % 3 = 1 THEN "https://" \o SiteOf(id) \o "/me.jpg" ELSE "" ],
    url    |-> "https://" \o SiteOf(id) \o "/post" ]

\* new URL(url).hostname, null when url does not parse
ExtractDomain(url) ==
  CASE url = "https://a.test/"     -> "a.test"
    [] url = "https://a.test/post" -> "a.test"
    [] url = "https://b.test/"     -> "b.test"
    [] url = "https://b.test/post" -> "b.test"
    [] OTHER                       -> Null

\* x || null
OrNull(x) == IF x = "" THEN Null ELSE x

\* item.author?.url || item.url || ""
DomainUrl(item) == IF item.author.url # "" THEN item.author.url ELSE item.url

Min(a, b) == IF a < b THEN a ELSE b

\* The entries webmention.io lists for since_id = sinceId (`if
\* (params.sinceId)`: 0 sends no since_id), in the order of the feed.
FeedSince(n, desc, sinceId) ==
  LET cnt == IF n > sinceId THEN n - sinceId ELSE 0
  IN  [k \in 1..cnt |-> Item(IF desc THEN n + 1 - k ELSE sinceId + k)]

\* body.children of page `page` with per-page = perPage
FetchPage(n, desc, page, perPage, sinceId) ==
  LET feed == FeedSince(n, desc, sinceId)
  IN  SubSeq(feed, page * perPage + 1, Min((page + 1) * perPage, Len(feed)))

\* ------------------------------------------------------ webmention store
Jf2ToDocument(item) ==
  [ wmId         |-> item.wmId,
    wmReceived   |-> item.wmReceived,
    wmProperty   |-> item.wmProperty,
    wmTarget     |-> item.wmTarget,
    authorUrl    |-> OrNull(item.author.url),
    authorPhoto  |-> OrNull(item.author.photo),
    sourceUrl    |-> OrNull(item.url),
    sourceDomain |-> ExtractDomain(DomainUrl(item)),
    hidden       |-> FALSE,
    hiddenAt     |-> NoTime,
    hiddenReason |-> Null ]

\* upsertedCount > 0 reported for every call
UpsertIsNew_Always(s, item) == TRUE

\* updateOne({wmId}, {$setOnInsert: doc}, {upsert: true}): upsertedCount > 0
UpsertIsNew(s, item) == ~ \E r \in s : r.wmId = Jf2ToDocument(item).wmId

\* $set instead of $setOnInsert: the stored document is overwritten
UpsertWebmention_Replace(s, item) ==
  {r \in s : r.wmId # Jf2ToDocument(item).wmId} \cup {Jf2ToDocument(item)}

\* the update also sets the moderation fields of the document: a stored
\* record comes out of an upsert as not hidden
UpsertWebmention_Unhides(s, item) ==
  {IF r.wmId = Jf2ToDocument(item).wmId
   THEN [r EXCEPT !.hidden = FALSE, !.hiddenAt = NoTime, !.hiddenReason = Null]
   ELSE r : r \in s}
    \cup (IF \E r \in s : r.wmId = Jf2ToDocument(item).wmId THEN {} ELSE {Jf2ToDocument(item)})

\* insertOne without the unique index on wmId
UpsertWebmention_AlwaysInsert(s, item) == s \cup {Jf2ToDocument(item)}

\* the collection after upsertWebmention
UpsertWebmention(s, item) ==
  IF UpsertIsNew(s, item) THEN s \cup {Jf2ToDocument(item)} ELSE s

SetMax(S) == IF S = {} THEN 0 ELSE CHOOSE y \in S : \A z \in S : z <= y

\* updateOne({wmId}, {$set: {hidden: true, hiddenAt, hiddenReason: reason}})
HideWebmention(s, wmId, reason, at) ==
  {IF r.wmId = wmId
   THEN [r EXCEPT !.hidden = TRUE, !.hiddenAt = at, !.hiddenReason = reason]
   ELSE r : r \in s}

\* $set: {hidden: false} alone: hiddenAt and hiddenReason stay
UnhideWebmention_KeepsReason(s, wmId) ==
  {IF r.wmId = wmId THEN [r EXCEPT !.hidden = FALSE] ELSE r : r \in s}

\* updateOne({wmId}, {$set: {hidden: false, hiddenAt: null, hiddenReason: null}})
UnhideWebmention(s, wmId) ==
  {IF r.wmId = wmId
   THEN [r EXCEPT !.hidden = FALSE, !.hiddenAt = NoTime, !.hiddenReason = Null]
   ELSE r : r \in s}

\* a filter on the domain alone: the hidden documents are matched too
HideByDomainMatch_AnyRecord(s, domain) == {r \in s : r.sourceDomain = domain}

\* the documents updateMany({sourceDomain: domain, hidden: {$ne: true}}) matches
HideByDomainMatch(s, domain) == {r \in s : r.sourceDomain = domain /\ r.hidden # TRUE}

HideByDomain(s, domain, reason, at) ==
  {IF r \in HideByDomainMatch(s, domain)
   THEN [r EXCEPT !.hidden = TRUE, !.hiddenAt = at, !.hiddenReason = reason]
   ELSE r : r \in s}

\* a filter on hidden instead of hiddenReason
UnhideByDomainMatch_AnyReason(s, domain) ==
  {r \in s : r.sourceDomain = domain /\ r.hidden}

\* the documents updateMany({sourceDomain: domain, hiddenReason: "blocklist"}) matches
UnhideByDomainMatch(s, domain) ==
  {r \in s : r.sourceDomain = domain /\ r.hiddenReason = "blocklist"}

UnhideByDomain(s, domain) ==
  {IF r \in UnhideByDomainMatch(s, domain)
   THEN [r EXCEPT !.hidden = FALSE, !.hiddenAt = NoTime, !.hiddenReason = Null]
   ELSE r : r \in s}

\* deleteMany({sourceDomain: domain})
DeleteByDomain(s, domain) == {r \in s : r.sourceDomain # domain}

\* sort({wmId: 1}): the lowest wmId
GetMaxWmId_Lowest(s) ==
  IF s = {} THEN 0 ELSE CHOOSE y \in {r.wmId : r \in s} : \A r \in s : y <= r.wmId

\* find({}).sort({wmId: -1}).limit(1): highest wmId, or 0
GetMaxWmId(s) == SetMax({r.wmId : r \in s})

\* nothing is deleted
DeleteAll_Nothing(s) == s

\* deleteMany({hidden: {$ne: true}}): the hidden documents stay
DeleteAll_KeepsHidden(s) == {r \in s : r.hidden}

\* deleteMany({})
DeleteAll(s) == {}

\* target.replace(/\/$/, ""): one trailing slash is removed
StripSlash(url) ==
  CASE url = PostUrl \o "/"   -> PostUrl
    [] url = PostUrl \o "//"  -> PostUrl \o "/"
    [] url = AboutUrl \o "/"  -> AboutUrl
    [] url = AboutUrl \o "//" -> AboutUrl \o "/"
    [] OTHER                  -> url

\* the target is compared as it was given
Matches_ExactTarget(r, target, wmProperty, showHidden) ==
  /\ showHidden \/ r.hidden # TRUE
  /\ target \notin {Null, ""} => r.wmTarget = target
  /\ wmProperty \notin {Null, ""} => r.wmProperty = wmProperty

\* the query of getWebmentions: hidden {$ne: true} unless showHidden,
\* wmTarget {$in: [targetClean, targetClean + "/"]} if target, wmProperty
\* if wmProperty
Matches(r, target, wmProperty, showHidden) ==
  /\ showHidden \/ r.hidden # TRUE
  /\ target \notin {Null, ""} =>
       r.wmTarget \in {StripSlash(target), StripSlash(target) \o "/"}
  /\ wmProperty \notin {Null, ""} => r.wmProperty = wmProperty

\* sort({wmReceived: -1})
RECURSIVE SortByReceived(_)
SortByReceived(S) ==
  IF S = {} THEN <<>>
  ELSE LET r == CHOOSE x \in S : \A y \in S : y.wmReceived <= x.wmReceived
       IN  <<r>> \o SortByReceived(S \ {r})

\* getWebmentions: countDocuments(query), then
\* find(query).sort(..).skip(page * perPage).limit(perPage)
GetWebmentions(s, target, wmProperty, showHidden, page, perPage) ==
  LET sel    == {r \in s : Matches(r, target, wmProperty, showHidden)}
      sorted == SortByReceived(sel)
  IN  [ items |-> SubSeq(sorted, page * perPage + 1, Min((page + 1) * perPage, Len(sorted))),
        total |-> Cardinality(sel) ]

\* documentToJf2, for the fields of the model
DocumentToJf2(doc) ==
  [ type       |-> "entry",
    wmId       |-> doc.wmId,
    wmReceived |-> doc.wmReceived,
    wmProperty |-> doc.wmProperty,
    wmTarget   |-> doc.wmTarget,
    author     |-> [ type  |-> "card",
                     url   |-> IF doc.authorUrl = Null THEN "" ELSE doc.authorUrl,
                     photo |-> IF doc.authorPhoto = Null THEN "" ELSE doc.authorPhoto ],
    url        |-> IF doc.sourceUrl = Null THEN "" ELSE doc.sourceUrl ]

\* --------------------------------------------------------- blocklist store
GetBlockedDomainSet(b) == {e.domain : e \in b}

\* the _id of the next inserted document (documents are kept apart by it)
NextId(b) == SetMax({e.id : e \in b}) + 1

\* no two documents of one domain: what createIndex({domain: 1}, {unique:
\* true}) needs to succeed
UniqueDomains(b) == \A e1, e2 \in b : e1.domain = e2.domain => e1 = e2

\* the first document of domain, which updateOne and deleteOne act on
FirstOf(b, domain) ==
  CHOOSE e \in b : e.domain = domain /\ \A x \in b : x.domain = domain => e.id <= x.id

\* insertOne; on the duplicate-key error (code 11000), which the unique
\* index on domain (indexed) raises when domain has a document,
\* updateOne({domain}, {$set: {reason}, $inc: {mentionsHidden}})
BlockDomain(b, indexed, domain, reason, mentionsHidden, at) ==
  IF indexed /\ \E e \in b : e.domain = domain
  THEN {IF e = FirstOf(b, domain)
        THEN [e EXCEPT !.reason = reason, !.mentionsHidden = @ + mentionsHidden]
        ELSE e : e \in b}
  ELSE b \cup {[id |-> NextId(b), domain |-> domain, reason |-> reason,
                blockedAt |-> at, mentionsHidden |-> mentionsHidden]}

\* The documents of b with their _ids replaced by their ranks: only the
\* order of the _ids is observable.
Ranked(b) == {[e EXCEPT !.id = Cardinality({x \in b : x.id <= e.id})] : e \in b}

\* deleteOne({domain})
UnblockDomain(b, domain) ==
  IF \E e \in b : e.domain = domain THEN Ranked(b \ {FirstOf(b, domain)}) ELSE b


\* ------------------------------------------------------ h-card discovery
\* CACHE_TTL_MS (7 days), in ticks of the model's clock
CACHE_TTL_MS == 1

\* age >= CACHE_TTL_MS
IsExpired_AtTtl(fetchedAt, t) ==
  IF fetchedAt = NoTime THEN TRUE ELSE t - fetchedAt >= CACHE_TTL_MS

\* age > CACHE_TTL_MS; a missing fetchedAt counts as expired
IsExpired(fetchedAt, t) ==
  IF fetchedAt = NoTime THEN TRUE ELSE t - fetchedAt > CACHE_TTL_MS

NoAuthorData == [photoUrl |-> Null, authorUrl |-> Null]

\* The src of the first img.u-photo and the href of the first a.u-url of
\* the homepage of domain ("" when there is none): a.test publishes an
\* h-card with relative URLs, b.test publishes none.
HomepageMarkup(domain) ==
  IF domain = "a.test" THEN [src |-> "/photo.jpg", href |-> "/"]
  ELSE [src |-> "", href |-> ""]

\* new URL(url, base).href
ResolveUrl(url, base) == base \o url

\* parseHcard(html, baseUrl) on the homepage of domain
ParseHcard(domain) ==
  LET m == HomepageMarkup(domain)
      baseUrl == "https://" \o domain
  IN  [ photoUrl  |-> IF m.src # "" THEN ResolveUrl(m.src, baseUrl) ELSE Null,
        authorUrl |-> IF m.href # "" THEN ResolveUrl(m.href, baseUrl) ELSE Null ]

MemoryHas(mem, domain) == \E e \in mem : e.domain = domain

MemoryGet(mem, domain) ==
  LET e == CHOOSE x \in mem : x.domain = domain
  IN  [photoUrl |-> e.photoUrl, authorUrl |-> e.authorUrl]

\* the cached documents findOne({domain}) returns that are not expired
FreshEntries(hc, domain, t) ==
  {e \in hc : e.domain = domain /\ ~IsExpired(e.fetchedAt, t)}

\* Which tier answers discoverAuthorData: readFails is a rejected findOne.
DiscoverySource(domain, mem, hc, t, readFails) ==
  IF domain = Null THEN "none"
  ELSE IF MemoryHas(mem, domain) THEN "memory"
  ELSE IF ~readFails /\ FreshEntries(hc, domain, t) # {} THEN "persistent"
  ELSE "live"

\* the value discoverAuthorData returns; fetchFails is a live fetch that
\* throws, answers with a non-success status or with a non-HTML type
DiscoverAuthorData(domain, mem, hc, t, readFails, fetchFails) ==
  LET src == DiscoverySource(domain, mem, hc, t, readFails)
  IN  CASE src = "none"       -> NoAuthorData
        [] src = "memory"     -> MemoryGet(mem, domain)
        [] src = "persistent" ->
             LET e == CHOOSE x \in FreshEntries(hc, domain, t) : TRUE
             IN  [photoUrl |-> e.photoUrl, authorUrl |-> e.authorUrl]
        [] OTHER              -> IF fetchFails THEN NoAuthorData ELSE ParseHcard(domain)

\* only a result that has a photo or a URL is kept in memory
MemoryAfter_PositiveOnly(domain, mem, hc, t, readFails, fetchFails) ==
  LET src  == DiscoverySource(domain, mem, hc, t, readFails)
      data == DiscoverAuthorData(domain, mem, hc, t, readFails, fetchFails)
  IN  IF src \in {"persistent", "live"} /\ data # NoAuthorData
      THEN {e \in mem : e.domain # domain}
           \cup {[domain |-> domain, photoUrl |-> data.photoUrl, authorUrl |-> data.authorUrl]}
      ELSE mem

\* memoryCache after discoverAuthorData
MemoryAfter(domain, mem, hc, t, readFails, fetchFails) ==
  LET src  == DiscoverySource(domain, mem, hc, t, readFails)
      data == DiscoverAuthorData(domain, mem, hc, t, readFails, fetchFails)
  IN  IF src \in {"persistent", "live"}
      THEN {e \in mem : e.domain # domain}
           \cup {[domain |-> domain, photoUrl |-> data.photoUrl, authorUrl |-> data.authorUrl]}
      ELSE mem

\* the hcardCache collection after discoverAuthorData; writeFails is a
\* rejected updateOne
CacheAfter(domain, mem, hc, t, readFails, fetchFails, writeFails) ==
  LET src  == DiscoverySource(domain, mem, hc, t, readFails)
      data == DiscoverAuthorData(domain, mem, hc, t, readFails, fetchFails)
  IN  IF src = "live" /\ ~writeFails
      THEN {e \in hc : e.domain # domain}
           \cup {[domain |-> domain, photoUrl |-> data.photoUrl,
                  authorUrl |-> data.authorUrl, fetchedAt |-> t]}
      ELSE hc

\* the distinct sourceDomain values of the documents without an author photo
GetDomainsWithMissingPhotos(s) ==
  {r.sourceDomain : r \in {x \in s : x.authorPhoto = Null /\ x.sourceDomain # Null}}

\* a document of domain after the discovered author fields are written into
\* its empty author fields
WithAuthorData(r, data) ==
  [r EXCEPT !.authorPhoto = IF @ = Null THEN data.photoUrl ELSE @,
            !.authorUrl   = IF @ = Null THEN data.authorUrl ELSE @]

UpdateAuthorDataByDomain(s, domain, data) ==
  {IF r.sourceDomain = domain THEN WithAuthorData(r, data) ELSE r : r \in s}

\* modifiedCount of updateAuthorDataByDomain
UpdatedCount(s, domain, data) ==
  Cardinality({r \in s : r.sourceDomain = domain /\ WithAuthorData(r, data) # r})

\* ------------------------------------------------------------ sync state
InitSyncState ==
  [ lastSync |-> NoTime, syncing |-> FALSE, lastError |-> Null,
    mentionsAdded |-> 0, mentionsFiltered |-> 0 ]

\* the same object is handed out: `return syncState`
GetSyncState_SameObject(ss) == [value |-> ss, shared |-> TRUE]

\* getSyncState(): `return { ...syncState }`, a new object with the values
\* of the five fields (shared: the object is syncState itself)
GetSyncState(ss) == [value |-> ss, shared |-> FALSE]

\* The locals of one call of runSync/runFullSync. atStart, fBlocked, fOpen
\* and kept are history: the wmIds stored when the call was made, the number
\* of fetched entries whose domain is in blockedDomains, the wmIds of the
\* other fetched entries, the wmIds whose upsert met a stored record that
\* was hidden, (after) the wmIds the run before this one had upserted when
\* it failed, (listed) the domains blocklisted when the call was made,
\* (fetched) the domains whose homepage the run has fetched, (discovered)
\* the value the last call of discoverAuthorData returned to the run,
\* (swallowed) the calls inside discoverAuthorData whose failure was caught,
\* (requested) the page number and the length of every page the run has
\* fetched, in the order of the calls, (feedAt) the number of entries of
\* the feed at the first of these calls, and (prev) the number of entries of
\* the feed and the number of pages gone through when the run before this
\* one failed, and (hiddenBefore) the wmIds stored as hidden when the call
\* was made, for a call of runFullSync.
IdleTask ==
  [ pc |-> "idle", kind |-> "none", sinceId |-> 0, blockedDomains |-> {},
    page |-> 0, items |-> <<>>, pageLen |-> 0, domains |-> {},
    totalUpdated |-> 0, atStart |-> {}, fBlocked |-> 0, fOpen |-> {}, kept |-> {},
    after |-> {}, listed |-> {}, fetched |-> {}, discovered |-> NoAuthorData,
    swallowed |-> {}, requested |-> <<>>, feedAt |-> 0,
    prev |-> [feed |-> 0, pages |-> 0], hiddenBefore |-> {} ]

\* the wmIds of the stored documents
StoredIds(s) == {r.wmId : r \in s}

IdleMod == [pc |-> "idle", domain |-> Null, reason |-> Null, count |-> 0]

\* no request of the public API is being answered
NoReply == [tag |-> "none"]

\* `let syncInterval = null`, no timer scheduled, stopSync never called
NoTimers == [syncInterval |-> Null, initial |-> "none", stopped |-> FALSE]

\* What a call of t gave its caller: nothing yet, the {error} object, the
\* counts object, or an exception (a rejected promise).
NoReturn == [task |-> 0, tag |-> "none"]
ErrReturn(t, msg) == [task |-> t, tag |-> "error", error |-> msg]
\* the {error} object of the catch block, with the history of the wmIds the
\* failed run had upserted, of the pages it had gone through and of the
\* size of the feed
FailReturn(t, msg, ids) ==
  [ task |-> t, tag |-> "error", error |-> msg, upserted |-> ids,
    pages |-> task[t].page, feed |-> remoteN ]
Thrown(t, msg) == [task |-> t, tag |-> "throw", error |-> msg]
OkReturn(t, a, f, e) ==
  [ task |-> t, tag |-> "ok", mentionsAdded |-> a, mentionsFiltered |-> f,
    mentionsEnriched |-> e ]

SpamEntry(domain) ==
  [id |-> 1, domain |-> domain, reason |-> "spam", blockedAt |-> 0, mentionsHidden |-> 0]

\* The process starts with empty module state; the database is new (no
\* documents, no index), or an earlier process has synced (the indexes
\* exist) and b.test was blocklisted.
Init ==
  /\ store = {}
  /\ blocklist \in {{}, {SpamEntry("b.test")}}
  /\ blockIndex = (blocklist # {})
  /\ hcardCache = {}
  /\ memoryCache = {}
  /\ syncState = InitSyncState
  /\ task = [t \in Tasks |-> IdleTask]
  /\ lastReturn = NoReturn
  /\ mod = IdleMod
  /\ chain = "none"
  /\ remoteN = 0
  /\ feedDesc \in BOOLEAN
  /\ now = 0
  /\ snapshot = GetSyncState(InitSyncState)
  /\ reply = NoReply
  /\ timers = NoTimers

\* ----------------------------------------------------------- environment
\* time passes
Tick ==
  /\ now < MaxTime
  /\ now' = now + 1
  /\ UNCHANGED <<dbVars, memoryCache, syncState, task, lastReturn, mod, chain,
                 remoteN, feedDesc, snapshot, reply, timers>>

\* webmention.io receives a new mention
RemoteReceive ==
  /\ remoteN < MaxId
  /\ remoteN' = remoteN + 1
  /\ chain' = "none"
  /\ UNCHANGED <<dbVars, memoryCache, syncState, task, lastReturn, mod, feedDesc, now,
                 snapshot, reply, timers>>


\* ------------------------------------------------------ sync orchestrator
NoDbMsg == "No database available"
BusyMsg == "Sync already in progress"

\* error.message of what the awaited call at pc throws
ErrorMessage(pc) ==
  CASE pc = "ensureIndexes" -> "createIndex failed"
    [] pc = "getMaxWmId"    -> "find failed"
    [] pc = "deleteAll"     -> "deleteMany failed"
    [] pc = "getBlocked"    -> "find failed"
    [] pc = "fetchPage"     -> "webmention.io returned 500"
    [] OTHER                -> "updateOne failed"

\* the counters are not reset: they run on from the run before
StartedState_KeepsCounts(ss) == [ss EXCEPT !.syncing = TRUE, !.lastError = Null]

\* syncState after the four assignments that start a run
StartedState(ss) ==
  [ss EXCEPT !.syncing = TRUE, !.lastError = Null,
             !.mentionsAdded = 0, !.mentionsFiltered = 0]

\* What callers pass as dbOrIndiekit: a database (or an Indiekit that has
\* one), an Indiekit whose database is not connected (the timer passes
\* Indiekit itself), or undefined (the controllers pass Indiekit.database).
DbArgs == {"db", "nodb", "undefined"}

\* `dbOrIndiekit.database` on undefined
TypeErrorMsg == "Cannot read properties of undefined"

\* a run begins: the locals of the call, and the history of the stored ids
StartedTask(kind) ==
  [IdleTask EXCEPT !.pc = "ensureIndexes", !.kind = kind, !.atStart = StoredIds(store),
                   !.after = IF lastReturn.tag = "error" /\ "upserted" \in DOMAIN lastReturn
                             THEN lastReturn.upserted ELSE {},
                   !.prev = IF lastReturn.tag = "error" /\ "upserted" \in DOMAIN lastReturn
                            THEN [feed |-> lastReturn.feed, pages |-> lastReturn.pages]
                            ELSE [feed |-> 0, pages |-> 0],
                   !.listed = GetBlockedDomainSet(blocklist),
                   !.hiddenBefore = IF kind = "full"
                                    THEN {r.wmId : r \in {x \in store : x.hidden}}
                                    ELSE {}]

\* runSync without its `if (syncState.syncing)` early return
RunSync_NoBusyCheck(t, arg) ==
  /\ task[t].pc = "idle"
  /\ CASE arg = "undefined" ->
            /\ lastReturn' = Thrown(t, TypeErrorMsg)
            /\ UNCHANGED <<syncState, task, chain>>
       [] arg = "nodb" ->
            /\ syncState' = [syncState EXCEPT !.lastError = NoDbMsg]
            /\ lastReturn' = ErrReturn(t, NoDbMsg)
            /\ UNCHANGED <<task, chain>>
       [] OTHER ->
            /\ syncState' = StartedState(syncState)
            /\ task' = [task EXCEPT ![t] = StartedTask("incremental")]
            /\ lastReturn' = NoReturn
            /\ chain' = IF chain = "fullDone" THEN "incr" ELSE "none"
  /\ UNCHANGED <<dbVars, memoryCache, mod, envVars>>

\* The synchronous head of runSync, up to its first await: what it does to
\* the module state and to its caller.
RunSyncHead(t, arg) ==
  /\ task[t].pc = "idle"
  /\ CASE arg = "undefined" ->
            /\ lastReturn' = Thrown(t, TypeErrorMsg)
            /\ UNCHANGED <<syncState, task, chain>>
       [] arg = "nodb" ->
            /\ syncState' = [syncState EXCEPT !.lastError = NoDbMsg]
            /\ lastReturn' = ErrReturn(t, NoDbMsg)
            /\ UNCHANGED <<task, chain>>
       [] syncState.syncing /\ arg = "db" ->
            /\ lastReturn' = ErrReturn(t, BusyMsg)
            /\ UNCHANGED <<syncState, task, chain>>
       [] OTHER ->
            /\ syncState' = StartedState(syncState)
            /\ task' = [task EXCEPT ![t] = StartedTask("incremental")]
            /\ lastReturn' = NoReturn
            /\ chain' = IF chain = "fullDone" THEN "incr" ELSE "none"

\* A call of runSync by a request handler or a test.
RunSync(t, arg) ==
  /\ RunSyncHead(t, arg)
  /\ UNCHANGED <<dbVars, memoryCache, mod, envVars>>

\* startSync: the one-shot timer of the initial sync and the interval
StartSync ==
  /\ timers = NoTimers
  /\ timers' = [timers EXCEPT !.initial = "pending", !.syncInterval = "interval"]
  /\ UNCHANGED <<dbVars, memoryCache, syncState, task, lastReturn, mod, chain,
                 remoteN, feedDesc, now, snapshot, reply>>

\* stopSync (the plugin's destroy): `if (syncInterval) { clearInterval(
\* syncInterval); syncInterval = null }`
StopSync ==
  /\ ~timers.stopped
  /\ timers' = [timers EXCEPT !.syncInterval = Null, !.stopped = TRUE]
  /\ UNCHANGED <<dbVars, memoryCache, syncState, task, lastReturn, mod, chain,
                 remoteN, feedDesc, now, snapshot, reply>>

\* the callback of setTimeout(..., 10_000): runSync(Indiekit, options)
InitialSync ==
  /\ timers.initial = "pending"
  /\ timers' = [timers EXCEPT !.initial = "done"]
  /\ \E t \in Tasks :
       /\ \A u \in Tasks : u < t => task[u].pc # "idle"
       /\ RunSyncHead(t, "db")
  /\ UNCHANGED <<dbVars, memoryCache, mod, remoteN, feedDesc, now, snapshot, reply>>

\* the callback of setInterval(..., intervalMs): runSync(Indiekit, options)
IntervalSync ==
  /\ timers.syncInterval # Null
  /\ \E t \in Tasks :
       /\ \A u \in Tasks : u < t => task[u].pc # "idle"
       /\ RunSyncHead(t, "db")
  /\ UNCHANGED <<dbVars, memoryCache, mod, envVars>>

\* runFullSync with its four assignments ahead of the `if (syncState.syncing)`
\* return: a rejected call has reset the counters and lastError
RunFullSync_ResetFirst(t, arg) ==
  /\ task[t].pc = "idle"
  /\ CASE arg = "undefined" ->
            /\ lastReturn' = Thrown(t, TypeErrorMsg)
            /\ UNCHANGED <<syncState, task, chain>>
       [] arg = "nodb" ->
            /\ lastReturn' = ErrReturn(t, NoDbMsg)
            /\ UNCHANGED <<syncState, task, chain>>
       [] syncState.syncing /\ arg = "db" ->
            /\ syncState' = StartedState(syncState)
            /\ lastReturn' = ErrReturn(t, BusyMsg)
            /\ UNCHANGED <<task, chain>>
       [] OTHER ->
            /\ syncState' = StartedState(syncState)
            /\ task' = [task EXCEPT ![t] = StartedTask("full")]
            /\ lastReturn' = NoReturn
            /\ chain' = "full"
  /\ UNCHANGED <<dbVars, memoryCache, mod, envVars>>

\* The synchronous head of runFullSync.
RunFullSync(t, arg) ==
  /\ task[t].pc = "idle"
  /\ CASE arg = "undefined" ->
            /\ lastReturn' = Thrown(t, TypeErrorMsg)
            /\ UNCHANGED <<syncState, task, chain>>
       [] arg = "nodb" ->
            /\ lastReturn' = ErrReturn(t, NoDbMsg)
            /\ UNCHANGED <<syncState, task, chain>>
       [] syncState.syncing /\ arg = "db" ->
            /\ lastReturn' = ErrReturn(t, BusyMsg)
            /\ UNCHANGED <<syncState, task, chain>>
       [] OTHER ->
            /\ syncState' = StartedState(syncState)
            /\ task' = [task EXCEPT ![t] = StartedTask("full")]
            /\ lastReturn' = NoReturn
            /\ chain' = "full"
  /\ UNCHANGED <<dbVars, memoryCache, mod, envVars>>

\* await ensureIndexes(wmCollection); await ensureBlocklistIndexes(...):
\* createIndex succeeds when the index exists or no domain has two documents
EnsureIndexes(t) ==
  /\ task[t].pc = "ensureIndexes"
  /\ blockIndex \/ UniqueDomains(blocklist)
  /\ blockIndex' = TRUE
  /\ task' = [task EXCEPT ![t].pc =
                IF task[t].kind = "full" THEN "deleteAll" ELSE "getMaxWmId"]
  /\ UNCHANGED <<store, blocklist, hcardCache, memoryCache, syncState, lastReturn, mod,
                 chain, envVars>>

\* const sinceId = await getMaxWmId(wmCollection)
ReadWatermark(t) ==
  /\ task[t].pc = "getMaxWmId"
  /\ task' = [task EXCEPT ![t].sinceId = GetMaxWmId(store), ![t].pc = "getBlocked"]
  /\ UNCHANGED <<dbVars, memoryCache, syncState, lastReturn, mod, chain, envVars>>

\* const deleted = await deleteAll(wmCollection)
ClearStore(t) ==
  /\ task[t].pc = "deleteAll"
  /\ store' = DeleteAll(store)
  /\ task' = [task EXCEPT ![t].pc = "getBlocked"]
  /\ UNCHANGED <<blocklist, blockIndex, hcardCache, memoryCache, syncState, lastReturn, mod,
                 chain, envVars>>

\* const blockedDomains = await getBlockedDomainSet(blockCollection)
LoadBlocked(t) ==
  /\ task[t].pc = "getBlocked"
  /\ task' = [task EXCEPT ![t].blockedDomains = GetBlockedDomainSet(blocklist),
                          ![t].pc = "fetchPage"]
  /\ UNCHANGED <<dbVars, memoryCache, syncState, lastReturn, mod, chain, envVars>>

\* the history of the fetches of a run with one more: it keeps one fetch
\* more than a run over a feed of MaxId entries can make
Requested(seq, page, len) ==
  IF Len(seq) <= (MaxId \div PerPage) + 1
  THEN Append(seq, [page |-> page, len |-> len]) ELSE seq

\* the blocked set is never consulted
IsFiltered_Never(item, blockedDomains) == FALSE

\* domain && blockedDomains.has(domain)
IsFiltered(item, blockedDomains) ==
  LET domain == ExtractDomain(DomainUrl(item))
  IN  domain # Null /\ domain \in blockedDomains

\* getBlockedDomainSet is awaited inside the while loop, with each page
FetchStep_Reloads(t) ==
  /\ task[t].pc = "fetchPage"
  /\ LET items   == FetchPage(remoteN, feedDesc, task[t].page, PerPage, task[t].sinceId)
         blocked == GetBlockedDomainSet(blocklist)
         blk     == {k \in 1..Len(items) : SiteOf(items[k].wmId) \in blocked}
         open    == {items[k].wmId : k \in (1..Len(items)) \ blk}
     IN  task' = [task EXCEPT ![t].items = items, ![t].pageLen = Len(items),
                              ![t].blockedDomains = blocked,
                              ![t].fBlocked = @ + Cardinality(blk),
                              ![t].fOpen = @ \cup open,
                              ![t].requested = Requested(@, task[t].page, Len(items)),
                              ![t].feedAt = IF task[t].requested = <<>> THEN remoteN ELSE @,
                              ![t].pc = IF Len(items) = 0 THEN "enrich" ELSE "items"]
  /\ UNCHANGED <<dbVars, memoryCache, syncState, lastReturn, mod, chain, envVars>>

\* const items = await fetchPage(options, {page, perPage, sinceId}); an
\* empty page leaves the loop. runFullSync passes no sinceId (sinceId is 0).
FetchStep(t) ==
  /\ task[t].pc = "fetchPage"
  /\ LET items == FetchPage(remoteN, feedDesc, task[t].page, PerPage, task[t].sinceId)
         blk   == {k \in 1..Len(items) : SiteOf(items[k].wmId) \in task[t].blockedDomains}
         open  == {items[k].wmId : k \in (1..Len(items)) \ blk}
     IN  task' = [task EXCEPT ![t].items = items, ![t].pageLen = Len(items),
                              ![t].fBlocked = @ + Cardinality(blk),
                              ![t].fOpen = @ \cup open,
                              ![t].requested = Requested(@, task[t].page, Len(items)),
                              ![t].feedAt = IF task[t].requested = <<>> THEN remoteN ELSE @,
                              ![t].pc = IF Len(items) = 0 THEN "enrich" ELSE "items"]
  /\ UNCHANGED <<dbVars, memoryCache, syncState, lastReturn, mod, chain, envVars>>

\* the loop ends after its first page
AfterPage_OnePage(tk) ==
  [tk EXCEPT !.items = <<>>, !.page = tk.page + 1, !.pc = "enrich"]

\* no page++: a full page is followed by a fetch of the same page
AfterPage_SamePage(tk) ==
  [tk EXCEPT !.items = <<>>,
             !.pc = IF tk.pageLen >= PerPage THEN "fetchPage" ELSE "enrich"]

\* `hasMore` is cleared by an empty page only: a short page is followed by
\* another fetch
AfterPage_UntilEmpty(tk) ==
  [tk EXCEPT !.items = <<>>, !.page = tk.page + 1, !.pc = "fetchPage"]

\* where the loop goes after the last item of a page: page++, then another
\* fetch after the delay when the page was full
AfterPage(tk) ==
  [tk EXCEPT !.items = <<>>, !.page = tk.page + 1,
             !.pc = IF tk.pageLen >= PerPage THEN "fetchPage" ELSE "enrich"]

\* one iteration of `for (const item of items)`
ItemStep(t) ==
  /\ task[t].pc = "items"
  /\ LET item == Head(task[t].items)
         hid  == \E r \in store : r.wmId = item.wmId /\ r.hidden
         rest == [task[t] EXCEPT !.items = Tail(task[t].items),
                                 !.kept = IF hid /\ ~IsFiltered(item, task[t].blockedDomains)
                                          THEN @ \cup {item.wmId} ELSE @]
         tk   == IF rest.items = <<>> THEN AfterPage(rest) ELSE rest
     IN  /\ task' = [task EXCEPT ![t] = tk]
         /\ IF IsFiltered(item, task[t].blockedDomains)
            THEN /\ syncState' = [syncState EXCEPT !.mentionsFiltered = @ + 1]
                 /\ UNCHANGED store
            ELSE /\ store' = UpsertWebmention(store, item)
                 /\ syncState' = IF UpsertIsNew(store, item)
                                 THEN [syncState EXCEPT !.mentionsAdded = @ + 1]
                                 ELSE syncState
  /\ UNCHANGED <<blocklist, blockIndex, hcardCache, memoryCache, lastReturn, mod, chain, envVars>>

\* the awaited call at the task's position can reject
CanThrow(tk) ==
  \/ tk.pc \in {"ensureIndexes", "getMaxWmId", "deleteAll", "getBlocked", "fetchPage"}
  \/ tk.pc = "items" /\ ~IsFiltered(Head(tk.items), tk.blockedDomains)

\* no catch block: the error leaves the function and syncing stays set
SyncFailed_Uncaught(t) ==
  /\ CanThrow(task[t])
  /\ lastReturn' = Thrown(t, ErrorMessage(task[t].pc))
  /\ task' = [task EXCEPT ![t] = IdleTask]
  /\ chain' = "none"
  /\ UNCHANGED <<dbVars, memoryCache, syncState, mod, envVars>>

\* the wmIds of the fetched entries the run has handed to upsertWebmention
Upserted(tk) == tk.fOpen \ {tk.items[k].wmId : k \in 1..Len(tk.items)}

\* a failed page fetch is tried again and the run goes on with the page the
\* second attempt returns; other errors are caught
SyncFailed_Retry(t) ==
  /\ CanThrow(task[t])
  /\ IF task[t].pc = "fetchPage"
     THEN FetchStep(t)
     ELSE /\ syncState' = [syncState EXCEPT !.lastError = ErrorMessage(task[t].pc),
                                            !.syncing = FALSE]
          /\ lastReturn' = FailReturn(t, ErrorMessage(task[t].pc), Upserted(task[t]))
          /\ task' = [task EXCEPT ![t] = IdleTask]
          /\ chain' = "none"
  /\ UNCHANGED <<dbVars, memoryCache, mod, envVars>>

\* a catch block that undoes the run: the records it inserted are deleted
SyncFailed_RollsBack(t) ==
  /\ CanThrow(task[t])
  /\ syncState' = [syncState EXCEPT !.lastError = ErrorMessage(task[t].pc),
                                    !.syncing = FALSE]
  /\ lastReturn' = FailReturn(t, ErrorMessage(task[t].pc), Upserted(task[t]))
  /\ store' = {r \in store : r.wmId \notin Upserted(task[t])}
  /\ task' = [task EXCEPT ![t] = IdleTask]
  /\ chain' = "none"
  /\ UNCHANGED <<blocklist, blockIndex, hcardCache, memoryCache, mod, envVars>>

\* lastSync is stamped in a finally block: after a failure too
SyncFailed_Stamps(t) ==
  /\ CanThrow(task[t])
  /\ syncState' = [syncState EXCEPT !.lastError = ErrorMessage(task[t].pc),
                                    !.syncing = FALSE, !.lastSync = now]
  /\ lastReturn' = FailReturn(t, ErrorMessage(task[t].pc), Upserted(task[t]))
  /\ task' = [task EXCEPT ![t] = IdleTask]
  /\ chain' = "none"
  /\ UNCHANGED <<dbVars, memoryCache, mod, envVars>>

\* the catch block of runSync/runFullSync
SyncFailed(t) ==
  /\ CanThrow(task[t])
  /\ syncState' = [syncState EXCEPT !.lastError = ErrorMessage(task[t].pc),
                                    !.syncing = FALSE]
  /\ lastReturn' = FailReturn(t, ErrorMessage(task[t].pc), Upserted(task[t]))
  /\ task' = [task EXCEPT ![t] = IdleTask]
  /\ chain' = "none"
  /\ UNCHANGED <<dbVars, memoryCache, mod, envVars>>

\* the success path stamps lastSync and returns with syncing still set
Completed_KeepsSyncing(t, enriched) ==
  /\ syncState' = [syncState EXCEPT !.lastSync = now]
  /\ lastReturn' = OkReturn(t, syncState.mentionsAdded, syncState.mentionsFiltered,
                            enriched)
  /\ task' = [task EXCEPT ![t] = IdleTask]
  /\ chain' = "none"

\* The end of the try block, once enrichMissingPhotos has returned
\* enriched: stamp lastSync, clear syncing, return the counts.
Completed(t, enriched) ==
  /\ syncState' = [syncState EXCEPT !.lastSync = now, !.syncing = FALSE]
  /\ lastReturn' = OkReturn(t, syncState.mentionsAdded, syncState.mentionsFiltered,
                            enriched)
  /\ task' = [task EXCEPT ![t] = IdleTask]
  /\ chain' = CASE task[t].kind = "full" /\ chain = "full" -> "fullDone"
                 [] task[t].kind = "incremental" /\ chain = "incr" -> "incrDone"
                 [] OTHER -> "none"

\* enrichMissingPhotos without its try block: a rejected
\* getDomainsWithMissingPhotos or createIndex reaches the catch of the run
EnrichStart_Propagates(t, failed) ==
  /\ task[t].pc = "enrich"
  /\ LET domains == GetDomainsWithMissingPhotos(store)
     IN  IF failed
         THEN /\ syncState' = [syncState EXCEPT !.lastError = "find failed",
                                                !.syncing = FALSE]
              /\ lastReturn' = FailReturn(t, "find failed", Upserted(task[t]))
              /\ task' = [task EXCEPT ![t] = IdleTask]
              /\ chain' = "none"
         ELSE IF domains = {}
         THEN Completed(t, 0)
         ELSE /\ task' = [task EXCEPT ![t].domains = domains, ![t].pc = "discover"]
              /\ UNCHANGED <<syncState, lastReturn, chain>>
  /\ UNCHANGED <<dbVars, memoryCache, mod, envVars>>

\* enrichMissingPhotos up to its loop: no domain misses a photo (return 0),
\* or the loop starts; failed is getDomainsWithMissingPhotos or createIndex
\* rejecting, which the catch turns into `return totalUpdated`
EnrichStart(t, failed) ==
  /\ task[t].pc = "enrich"
  /\ LET domains == GetDomainsWithMissingPhotos(store)
     IN  IF failed \/ domains = {}
         THEN Completed(t, 0)
         ELSE /\ task' = [task EXCEPT ![t].domains = domains, ![t].pc = "discover"]
              /\ UNCHANGED <<syncState, lastReturn, chain>>
  /\ UNCHANGED <<dbVars, memoryCache, mod, envVars>>

\* the iteration writes what it discovered into every record, of any domain
\* and over the author fields the record has
EnrichDomain_Overwrite(t, domain, readFails, fetchFails, writeFails, updateFails) ==
  /\ task[t].pc = "discover"
  /\ domain \in task[t].domains
  /\ LET data == DiscoverAuthorData(domain, memoryCache, hcardCache, now, readFails, fetchFails)
         found == data.photoUrl # Null \/ data.authorUrl # Null
         rest == task[t].domains \ {domain}
     IN  /\ memoryCache' = MemoryAfter(domain, memoryCache, hcardCache, now, readFails, fetchFails)
         /\ hcardCache' = CacheAfter(domain, memoryCache, hcardCache, now, readFails,
                                     fetchFails, writeFails)
         /\ store' = IF found
                      THEN {[r EXCEPT !.authorPhoto = data.photoUrl,
                                      !.authorUrl = data.authorUrl] : r \in store}
                      ELSE store
         /\ task' = [task EXCEPT ![t].domains = rest,
                                 ![t].pc = IF rest = {} THEN "complete" ELSE "discover"]
         /\ UNCHANGED <<syncState, lastReturn, chain>>
  /\ UNCHANGED <<blocklist, blockIndex, mod, envVars>>

\* discoverAuthorData without its try blocks: a failed cache read, fetch or
\* cache write rejects it, and the catch of enrichMissingPhotos ends the loop
EnrichDomain_Rejects(t, domain, readFails, fetchFails, writeFails, updateFails) ==
  /\ task[t].pc = "discover"
  /\ domain \in task[t].domains
  /\ LET data == DiscoverAuthorData(domain, memoryCache, hcardCache, now, readFails, fetchFails)
         found == data.photoUrl # Null \/ data.authorUrl # Null
         updated == IF found THEN UpdatedCount(store, domain, data) ELSE 0
         src == DiscoverySource(domain, memoryCache, hcardCache, now, readFails)
         rest == task[t].domains \ {domain}
     IN  IF readFails \/ fetchFails \/ writeFails \/ (found /\ updateFails)
         THEN /\ Completed(t, task[t].totalUpdated)
              /\ UNCHANGED <<store, memoryCache, hcardCache>>
         ELSE /\ memoryCache' = MemoryAfter(domain, memoryCache, hcardCache, now, FALSE, FALSE)
              /\ hcardCache' = CacheAfter(domain, memoryCache, hcardCache, now, FALSE, FALSE,
                                          FALSE)
              /\ store' = IF found THEN UpdateAuthorDataByDomain(store, domain, data)
                          ELSE store
              /\ task' = [task EXCEPT ![t].domains = rest,
                                      ![t].totalUpdated = @ + updated,
                                      ![t].fetched = IF src = "live" THEN @ \cup {domain} ELSE @,
                                      ![t].discovered = data,
                                      ![t].pc = IF rest = {} THEN "complete" ELSE "discover"]
              /\ UNCHANGED <<syncState, lastReturn, chain>>
  /\ UNCHANGED <<blocklist, blockIndex, mod, envVars>>

\* totalUpdated counts the records of the domain, changed or not
EnrichDomain_CountsMatched(t, domain, readFails, fetchFails, writeFails, updateFails) ==
  /\ task[t].pc = "discover"
  /\ domain \in task[t].domains
  /\ LET data == DiscoverAuthorData(domain, memoryCache, hcardCache, now, readFails, fetchFails)
         found == data.photoUrl # Null \/ data.authorUrl # Null
         updated == IF found THEN Cardinality({r \in store : r.sourceDomain = domain}) ELSE 0
         live == DiscoverySource(domain, memoryCache, hcardCache, now, readFails) = "live"
         rest == task[t].domains \ {domain}
     IN  /\ memoryCache' = MemoryAfter(domain, memoryCache, hcardCache, now, readFails, fetchFails)
         /\ hcardCache' = CacheAfter(domain, memoryCache, hcardCache, now, readFails,
                                     fetchFails, writeFails)
         /\ IF found /\ updateFails
            THEN /\ Completed(t, task[t].totalUpdated)
                 /\ UNCHANGED store
            ELSE /\ store' = IF found THEN UpdateAuthorDataByDomain(store, domain, data)
                             ELSE store
                 /\ task' = [task EXCEPT ![t].domains = rest,
                                         ![t].totalUpdated = @ + updated,
                                         ![t].fetched = IF live THEN @ \cup {domain} ELSE @,
                                         ![t].discovered = data,
                                         ![t].pc = IF rest = {} THEN "complete" ELSE "discover"]
                 /\ UNCHANGED <<syncState, lastReturn, chain>>
  /\ UNCHANGED <<blocklist, blockIndex, mod, envVars>>

\* One iteration of `for (const domain of domains)`: discoverAuthorData,
\* then updateAuthorDataByDomain when something was found. updateFails is
\* updateAuthorDataByDomain rejecting: the catch ends enrichment.
EnrichDomain(t, domain, readFails, fetchFails, writeFails, updateFails) ==
  /\ task[t].pc = "discover"
  /\ domain \in task[t].domains
  /\ LET data == DiscoverAuthorData(domain, memoryCache, hcardCache, now, readFails, fetchFails)
         found == data.photoUrl # Null \/ data.authorUrl # Null
         updated == IF found THEN UpdatedCount(store, domain, data) ELSE 0
         src == DiscoverySource(domain, memoryCache, hcardCache, now, readFails)
         live == src = "live"
         caught == (IF readFails /\ src # "memory" THEN {"read"} ELSE {})
                     \cup (IF fetchFails /\ live THEN {"fetch"} ELSE {})
                     \cup (IF writeFails /\ live THEN {"write"} ELSE {})
         rest == task[t].domains \ {domain}
     IN  /\ memoryCache' = MemoryAfter(domain, memoryCache, hcardCache, now, readFails, fetchFails)
         /\ hcardCache' = CacheAfter(domain, memoryCache, hcardCache, now, readFails,
                                     fetchFails, writeFails)
         /\ IF found /\ updateFails
            THEN /\ Completed(t, task[t].totalUpdated)
                 /\ UNCHANGED store
            ELSE /\ store' = IF found THEN UpdateAuthorDataByDomain(store, domain, data)
                             ELSE store
                 /\ task' = [task EXCEPT ![t].domains = rest,
                                         ![t].totalUpdated = @ + updated,
                                         ![t].fetched = IF live THEN @ \cup {domain} ELSE @,
                                         ![t].discovered = data,
                                         ![t].swallowed = @ \cup caught,
                                         ![t].pc = IF rest = {} THEN "complete" ELSE "discover"]
                 /\ UNCHANGED <<syncState, lastReturn, chain>>
  /\ UNCHANGED <<blocklist, blockIndex, mod, envVars>>

\* enrichMissingPhotos returns totalUpdated after the last delay(200)
SyncComplete(t) ==
  /\ task[t].pc = "complete"
  /\ Completed(t, task[t].totalUpdated)
  /\ UNCHANGED <<dbVars, memoryCache, mod, envVars>>

\* clearMemoryCache(): memoryCache.clear()
ClearMemoryCache ==
  /\ memoryCache # {}
  /\ memoryCache' = {}
  /\ UNCHANGED <<dbVars, syncState, task, lastReturn, mod, chain, envVars>>

\* ---------------------------------------------------------- status readers
\* a dashboard request calls getSyncState()
ReadStatus ==
  /\ snapshot' = GetSyncState(syncState)
  /\ UNCHANGED <<dbVars, memoryCache, syncState, task, lastReturn, mod, chain,
                 remoteN, feedDesc, now, reply, timers>>

ReaderMark == "changed by reader"

\* the reader assigns to fields of the object it was given
MutateSnapshot ==
  /\ snapshot.value.lastError # ReaderMark
  /\ snapshot' = [snapshot EXCEPT !.value.lastError = ReaderMark,
                                  !.value.mentionsAdded = 0]
  /\ syncState' = IF snapshot.shared THEN snapshot'.value ELSE syncState
  /\ UNCHANGED <<dbVars, memoryCache, task, lastReturn, mod, chain,
                 remoteN, feedDesc, now, reply, timers>>

\* -------------------------------------------------------------- public API
\* the values of ?target= and ?wm-property= (`|| null` when absent)
Targets == {Null, PostUrl, PostUrl \o "/", PostUrl \o "//", AboutUrl}
Properties == {Null, "like-of", "in-reply-to"}
Pages == {0, 1}

\* GET /api/mentions: getWebmentions with showHidden false, the items
\* mapped with documentToJf2 (items and total are kept next to the query)
GetMentions(target, wmProperty, page) ==
  /\ reply = NoReply
  /\ LET found == GetWebmentions(store, target, wmProperty, FALSE, page, ApiPerPage)
     IN  reply' = [ tag |-> "feed", target |-> target, wmProperty |-> wmProperty,
                    page |-> page, items |-> found.items, total |-> found.total,
                    children |-> [k \in 1..Len(found.items) |->
                                    DocumentToJf2(found.items[k])] ]
  /\ UNCHANGED <<dbVars, memoryCache, syncState, task, lastReturn, mod, chain,
                 remoteN, feedDesc, now, snapshot, timers>>

\* the values of ?filter=, ?type= and ?limit= of the dashboard (`|| "all"`
\* and `|| 20` when absent)
Filters == {"all", "visible", "hidden"}
TypeFilters == {"all", "like-of", "in-reply-to"}
Limits == {ApiPerPage, ApiPerPage + 1}

\* queryOptions.showHidden of dashboardController.list
ShowHidden(filter) == IF filter = "visible" THEN FALSE ELSE TRUE

\* the object of the mention() macro, for the fields of the model
MentionView(item) ==
  [ id |-> item.wmId, wmProperty |-> item.wmProperty, wmTarget |-> item.wmTarget,
    url |-> item.sourceUrl, avatar |-> item.authorPhoto, userUrl |-> item.authorUrl,
    hidden |-> item.hidden, hiddenReason |-> item.hiddenReason,
    sourceDomain |-> item.sourceDomain ]

\* GET /webmentions: the options from the query string, getWebmentions, the
\* items mapped for the template
DashboardList(filter, typeFilter, page, limit) ==
  /\ reply = NoReply
  /\ LET found == GetWebmentions(store, Null, IF typeFilter = "all" THEN Null ELSE typeFilter,
                                 ShowHidden(filter), page, limit)
     IN  reply' = [ tag |-> "dashboard", filter |-> filter, typeFilter |-> typeFilter,
                    page |-> page, limit |-> limit, total |-> found.total,
                    webmentions |-> [k \in 1..Len(found.items) |->
                                       MentionView(found.items[k])] ]
  /\ UNCHANGED <<dbVars, memoryCache, syncState, task, lastReturn, mod, chain,
                 remoteN, feedDesc, now, snapshot, timers>>

\* response.json(...) or response.render(...): the answer is sent
Respond ==
  /\ reply # NoReply
  /\ reply' = NoReply
  /\ UNCHANGED <<dbVars, memoryCache, syncState, task, lastReturn, mod, chain,
                 remoteN, feedDesc, now, snapshot, timers>>

\* ---------------------------------------------------- moderation handlers
\* POST /:wmId/hide
Hide(wmId) ==
  /\ mod.pc = "idle"
  /\ store' = HideWebmention(store, wmId, "manual", now)
  /\ chain' = "none"
  /\ UNCHANGED <<blocklist, blockIndex, hcardCache, memoryCache, syncState, task, lastReturn,
                 mod, envVars>>

\* POST /:wmId/unhide
Unhide(wmId) ==
  /\ mod.pc = "idle"
  /\ store' = UnhideWebmention(store, wmId)
  /\ chain' = "none"
  /\ UNCHANGED <<blocklist, blockIndex, hcardCache, memoryCache, syncState, task, lastReturn,
                 mod, envVars>>

\* POST /block, up to `await hideByDomain(wmCollection, domain, "blocklist")`
BlockHide(domain) ==
  /\ mod.pc = "idle"
  /\ store' = HideByDomain(store, domain, "blocklist", now)
  /\ mod' = [pc |-> "blockDomain", domain |-> domain, reason |-> "spam",
             count |-> Cardinality(HideByDomainMatch(store, domain))]
  /\ chain' = "none"
  /\ UNCHANGED <<blocklist, blockIndex, hcardCache, memoryCache, syncState, task, lastReturn, envVars>>

\* POST /privacy-remove, up to `await deleteByDomain(wmCollection, domain)`
PrivacyDelete(domain) ==
  /\ mod.pc = "idle"
  /\ store' = DeleteByDomain(store, domain)
  /\ mod' = [pc |-> "blockDomain", domain |-> domain, reason |-> "privacy",
             count |-> Cardinality(store \ DeleteByDomain(store, domain))]
  /\ chain' = "none"
  /\ UNCHANGED <<blocklist, blockIndex, hcardCache, memoryCache, syncState, task, lastReturn, envVars>>

\* mentionsHidden of domain's entry after one more $inc, for the cap
HiddenAfter(b, domain, n) ==
  IF \E e \in b : e.domain = domain THEN FirstOf(b, domain).mentionsHidden + n ELSE n

\* `await blockDomain(blockCollection, domain, reason, count)` of both handlers
BlockInsert ==
  /\ mod.pc = "blockDomain"
  /\ HiddenAfter(blocklist, mod.domain, mod.count) <= MaxHidden
  /\ Cardinality(BlockDomain(blocklist, blockIndex, mod.domain, mod.reason, mod.count, now))
       <= MaxEntries
  /\ blocklist' = BlockDomain(blocklist, blockIndex, mod.domain, mod.reason, mod.count, now)
  /\ mod' = IdleMod
  /\ chain' = "none"
  /\ UNCHANGED <<store, blockIndex, hcardCache, memoryCache, syncState, task, lastReturn, envVars>>

\* blockDomain rejects with another error: the handler's catch redirects
BlockInsertFailed ==
  /\ mod.pc = "blockDomain"
  /\ mod' = IdleMod
  /\ UNCHANGED <<dbVars, memoryCache, syncState, task, lastReturn, chain, envVars>>

\* POST /blocklist/:domain/delete, up to `await unblockDomain(...)`
UnblockDelete(domain) ==
  /\ mod.pc = "idle"
  /\ blocklist' = UnblockDomain(blocklist, domain)
  /\ mod' = [IdleMod EXCEPT !.pc = "unhideByDomain", !.domain = domain]
  /\ chain' = "none"
  /\ UNCHANGED <<store, blockIndex, hcardCache, memoryCache, syncState, task, lastReturn, envVars>>

\* `await unhideByDomain(wmCollection, domain)`, then the redirect that
\* reports the number of unhidden mentions
UnblockUnhide ==
  /\ mod.pc = "unhideByDomain"
  /\ store' = UnhideByDomain(store, mod.domain)
  /\ mod' = [pc |-> "idle", domain |-> mod.domain, reason |-> "unblocked",
             count |-> Cardinality(UnhideByDomainMatch(store, mod.domain))]
  /\ chain' = "none"
  /\ UNCHANGED <<blocklist, blockIndex, hcardCache, memoryCache, syncState, task, lastReturn, envVars>>

\* ------------------------------------------------------- specifications
\* The failures that can occur for domain right now: a failure of a call
\* that is not made is not an input (the persistent read is made on a memory
\* miss, the fetch and the cache write on a live discovery, the update of
\* the store when something was found).
Effective(domain, readFails, fetchFails, writeFails, updateFails) ==
  LET src  == DiscoverySource(domain, memoryCache, hcardCache, now, readFails)
      data == DiscoverAuthorData(domain, memoryCache, hcardCache, now, readFails, fetchFails)
  IN  /\ readFails => src # "memory"
      /\ (fetchFails \/ writeFails) => src = "live"
      /\ updateFails => (data.photoUrl # Null \/ data.authorUrl # Null)

\* the steps of a started run; of the failures inside enrichment, the ones
\* that end it early (failed, uf) are drawn, discovery itself succeeds
RunStep(t) ==
  \/ EnsureIndexes(t)
  \/ ReadWatermark(t)
  \/ ClearStore(t)
  \/ LoadBlocked(t)
  \/ FetchStep(t)
  \/ ItemStep(t)
  \/ SyncFailed(t)
  \/ \E failed \in BOOLEAN : EnrichStart(t, failed)
  \/ \E d \in Domains, uf \in BOOLEAN :
       /\ Effective(d, FALSE, FALSE, FALSE, uf)
       /\ EnrichDomain(t, d, FALSE, FALSE, FALSE, uf)
  \/ SyncComplete(t)

\* The steps of an incremental run: it never clears the collection.
IncrStep(t) ==
  \/ EnsureIndexes(t)
  \/ ReadWatermark(t)
  \/ LoadBlocked(t)
  \/ FetchStep(t)
  \/ ItemStep(t)
  \/ SyncFailed(t)
  \/ \E failed \in BOOLEAN : EnrichStart(t, failed)
  \/ \E d \in Domains, uf \in BOOLEAN :
       /\ Effective(d, FALSE, FALSE, FALSE, uf)
       /\ EnrichDomain(t, d, FALSE, FALSE, FALSE, uf)
  \/ SyncComplete(t)

\* One caller of the engine (a database is always there), the feed growing,
\* and a moderator who hides and restores single mentions.
NextHide ==
  \/ RemoteReceive
  \/ RunSync(1, "db")
  \/ RunFullSync(1, "db")
  \/ RunStep(1)
  \/ \E id \in Ids : Hide(id)
  \/ \E id \in Ids : Unhide(id)

SpecHide == Init /\ [][NextHide]_vars

\* One caller of the engine, the feed growing, and a moderator who blocks
\* a.test, the domain with several mentions (b.test is blocklisted from the
\* start or never).
NextBlock ==
  \/ RemoteReceive
  \/ RunSync(1, "db")
  \/ RunFullSync(1, "db")
  \/ RunStep(1)
  \/ BlockHide("a.test")
  \/ BlockInsert
  \/ BlockInsertFailed

SpecBlock == Init /\ [][NextBlock]_vars

\* One caller of incremental syncs, the feed growing, and a moderator who
\* hides single mentions, blocks a.test and unblocks it.
NextUnblock ==
  \/ RemoteReceive
  \/ RunSync(1, "db")
  \/ IncrStep(1)
  \/ \E id \in Ids : Hide(id)
  \/ BlockHide("a.test")
  \/ BlockInsert
  \/ UnblockDelete("a.test")
  \/ UnblockUnhide

SpecUnblock == Init /\ [][NextUnblock]_vars

\* One caller of incremental syncs, the feed growing, and a moderator who
\* removes a.test for privacy.
NextPrivacy ==
  \/ RemoteReceive
  \/ RunSync(1, "db")
  \/ IncrStep(1)
  \/ PrivacyDelete("a.test")
  \/ BlockInsert

SpecPrivacy == Init /\ [][NextPrivacy]_vars

\* One caller of incremental syncs whose enrichment can fail at each of its
\* calls, the clock, the feed growing, and the memory cache cleared.
NextCache ==
  \/ RemoteReceive
  \/ Tick
  \/ ClearMemoryCache
  \/ RunSync(1, "db")
  \/ EnsureIndexes(1)
  \/ ReadWatermark(1)
  \/ LoadBlocked(1)
  \/ FetchStep(1)
  \/ ItemStep(1)
  \/ \E failed \in BOOLEAN : EnrichStart(1, failed)
  \/ \E d \in Domains, rf, ff, wf, uf \in BOOLEAN :
       /\ Effective(d, rf, ff, wf, uf)
       /\ EnrichDomain(1, d, rf, ff, wf, uf)
  \/ SyncComplete(1)

\* a cache document of b.test that an older version left without fetchedAt
LegacyEntry ==
  [domain |-> "b.test", photoUrl |-> "https://b.test/old.jpg", authorUrl |-> Null,
   fetchedAt |-> NoTime]

\* a new process on a new database, or on one whose h-card cache holds a
\* document without fetchedAt
InitCache ==
  /\ store = {}
  /\ blocklist = {}
  /\ blockIndex = FALSE
  /\ hcardCache \in {{}, {LegacyEntry}}
  /\ memoryCache = {}
  /\ syncState = InitSyncState
  /\ task = [t \in Tasks |-> IdleTask]
  /\ lastReturn = NoReturn
  /\ mod = IdleMod
  /\ chain = "none"
  /\ remoteN = 0
  /\ feedDesc = FALSE
  /\ now = 0
  /\ snapshot = GetSyncState(InitSyncState)
  /\ reply = NoReply
  /\ timers = NoTimers

SpecCache == InitCache /\ [][NextCache]_vars

\* One caller of incremental syncs, the feed growing, and a reader of the
\* sync state.
NextStatus ==
  \/ RemoteReceive
  \/ RunSync(1, "db")
  \/ IncrStep(1)
  \/ ReadStatus
  \/ MutateSnapshot

SpecStatus == Init /\ [][NextStatus]_vars

\* The clock, the feed growing, a caller whose calls come with or without a
\* database, and a second caller who calls while a run is in progress.
NextStamp ==
  \/ Tick
  \/ RemoteReceive
  \/ \E arg \in DbArgs : RunSync(1, arg)
  \/ \E arg \in DbArgs : RunFullSync(1, arg)
  \/ RunStep(1)
  \/ syncState.syncing /\ RunSync(2, "db")
  \/ syncState.syncing /\ RunFullSync(2, "db")

SpecStamp == Init /\ [][NextStamp]_vars

\* One caller whose runs make progress: every awaited call of a run (a
\* database call, a fetch with its AbortSignal.timeout, a delay) settles,
\* and the continuation runs. A second caller calls during runs, and the
\* feed grows up to MaxId entries.
NextLive ==
  \/ RemoteReceive
  \/ RunSync(1, "db")
  \/ RunFullSync(1, "db")
  \/ RunStep(1)
  \/ syncState.syncing /\ RunSync(2, "db")
  \/ syncState.syncing /\ RunFullSync(2, "db")

SpecLive == Init /\ [][NextLive]_vars /\ WF_vars(RunStep(1))

\* One caller of incremental syncs, the feed growing, a moderator who hides
\* single mentions, and a client of the public API; an answer is sent
\* before anything else happens.
NextApi ==
  \/ reply = NoReply /\ RemoteReceive
  \/ reply = NoReply /\ RunSync(1, "db")
  \/ reply = NoReply /\ IncrStep(1)
  \/ \E id \in Ids : reply = NoReply /\ Hide(id)
  \/ \E target \in Targets, wmProperty \in Properties, page \in Pages :
       GetMentions(target, wmProperty, page)
  \/ Respond

SpecApi == Init /\ [][NextApi]_vars

\* One caller of incremental syncs, the feed growing, a moderator who hides
\* single mentions and looks at the dashboard.
NextDash ==
  \/ reply = NoReply /\ RemoteReceive
  \/ reply = NoReply /\ RunSync(1, "db")
  \/ reply = NoReply /\ IncrStep(1)
  \/ \E id \in Ids : reply = NoReply /\ Hide(id)
  \/ \E filter \in Filters, typeFilter \in TypeFilters, page \in Pages, limit \in Limits :
       DashboardList(filter, typeFilter, page, limit)
  \/ Respond

SpecDash == Init /\ [][NextDash]_vars

\* One caller of incremental and full syncs, the feed growing, and a
\* moderator who hides single mentions while no full sync is in progress.
NextFull ==
  \/ RemoteReceive
  \/ RunSync(1, "db")
  \/ RunFullSync(1, "db")
  \/ RunStep(1)
  \/ \E id \in Ids : task[1].kind # "full" /\ Hide(id)

SpecFull == Init /\ [][NextFull]_vars

\* One caller of incremental syncs that do not fail and whose enrichment
\* ends at its first call, the feed growing, and a moderator who hides and
\* restores single mentions, blocks a.test and unblocks it.
NextModerate ==
  \/ RemoteReceive
  \/ RunSync(1, "db")
  \/ EnsureIndexes(1)
  \/ ReadWatermark(1)
  \/ LoadBlocked(1)
  \/ FetchStep(1)
  \/ ItemStep(1)
  \/ EnrichStart(1, TRUE)
  \/ \E id \in Ids : Hide(id)
  \/ \E id \in Ids : Unhide(id)
  \/ BlockHide("a.test")
  \/ BlockInsert
  \/ UnblockDelete("a.test")
  \/ UnblockUnhide

SpecModerate == Init /\ [][NextModerate]_vars

\* The plugin's life: init starts the timers, the timers call runSync, the
\* runs go on, the feed grows, destroy stops the background sync.
NextTimer ==
  \/ RemoteReceive
  \/ StartSync
  \/ StopSync
  \/ InitialSync
  \/ IntervalSync
  \/ \E t \in Tasks : IncrStep(t)

SpecTimer == Init /\ [][NextTimer]_vars

\* The sync engine on its own: timer and manual calls, the feed growing.
Next ==
  \/ RemoteReceive
  \/ \E t \in Tasks, arg \in DbArgs : RunSync(t, arg)
  \/ \E t \in Tasks, arg \in DbArgs : RunFullSync(t, arg)
  \/ \E t \in Tasks : RunStep(t)

Spec == Init /\ [][Next]_vars

\* ---------------------------------------------------------------- claims
\* the calls that are between their start and their return
Running == {t \in Tasks : task[t].pc # "idle"}

\* the positions of a run that has loaded its blocked set
Loaded(t) == task[t].pc \in {"fetchPage", "items", "enrich", "discover", "complete"}

\* the positions of a run whose page loop has ended
Ingested(t) == task[t].pc \in {"enrich", "discover", "complete"}

\* the wmIds a run finds stored when it starts to fetch
Prior(t) == IF task[t].kind = "full" THEN {} ELSE task[t].atStart

\* C1: at most one run is in progress at any time, and a call of runSync or
\* runFullSync (with a database) made while syncState.syncing is true
\* returns "Sync already in progress" at once and starts nothing: no
\* position is taken, and store, blocklist, caches and syncState are
\* unchanged.
C1_MutualExclusion ==
  [][ /\ Cardinality(Running') <= 1
      /\ \A t \in Tasks :
           (syncState.syncing /\ (RunSync(t, "db") \/ RunFullSync(t, "db")))
             => /\ lastReturn' = ErrReturn(t, BusyMsg)
                /\ task' = task
                /\ UNCHANGED <<dbVars, memoryCache, syncState>> ]_vars

\* a call was rejected while the run of another caller is storing entries
C1_Witness ==
  \E t, u \in Tasks :
    /\ t # u
    /\ task[t].pc = "items"
    /\ syncState.syncing
    /\ lastReturn = ErrReturn(u, BusyMsg)

\* no stored record of a domain of the run's blocked set was created by the run
NoneCreated(t) ==
  \A r \in store : r.sourceDomain \in task[t].blockedDomains => r.wmId \in task[t].atStart

\* the records of the run's blocked domains that were stored at its start are stored
BlockedKept(t) ==
  \A id \in task[t].atStart : SiteOf(id) \in task[t].blockedDomains => id \in StoredIds(store)

\* C2 as claimed: a run, incremental or full, that has loaded its blocked set
\* has created no record of a domain of that set, and the records of those
\* domains that were stored before the run are still stored.
C2_Original == \A t \in Tasks : Loaded(t) => NoneCreated(t) /\ BlockedKept(t)

\* C2, amended: a run that has loaded its blocked set has created no record
\* of a domain of that set; an incremental run leaves the records of those
\* domains that were stored before it in the store; after the clear of a full
\* run no record of those domains is stored at all.
C2_FilterBeforeStorage ==
  \A t \in Tasks :
    Loaded(t) =>
      /\ NoneCreated(t)
      /\ task[t].kind = "incremental" => BlockedKept(t)
      /\ task[t].kind = "full" => \A r \in store : r.sourceDomain \notin task[t].blockedDomains

\* an incremental run has filtered an entry of a blocked domain of which an
\* older record is stored, and the feed holds an entry of that domain that is
\* not stored
C2_Witness ==
  \E t \in Tasks, id \in Ids, new \in Ids :
    /\ task[t].kind = "incremental" /\ Ingested(t)
    /\ id \in task[t].atStart /\ id \in StoredIds(store)
    /\ SiteOf(id) \in task[t].blockedDomains
    /\ new <= remoteN /\ new > task[t].sinceId /\ new \notin StoredIds(store)
    /\ SiteOf(new) = SiteOf(id)
    /\ syncState.mentionsFiltered >= 1

\* C3: upsert is insert-only. A step of the item loop leaves every stored
\* record exactly as it was (hidden, hiddenAt, hiddenReason and all other
\* fields), also the record of the wmId it upserts.
C3_UpsertInsertOnly ==
  [][ \A t \in Tasks : ItemStep(t) => \A r \in store : r \in store' ]_vars

\* a run has upserted a wmId whose record moderation had hidden, and the
\* record is hidden as moderation left it
C3_Witness ==
  \E t \in Tasks, r \in store :
    /\ r.wmId \in task[t].kept
    /\ r.hidden /\ r.hiddenReason = "manual" /\ r.hiddenAt = 0

\* at most one stored record per wmId
UniqueWmId(s) == \A r1, r2 \in s : r1.wmId = r2.wmId => r1 = r2

\* C4: the store never holds two records of one wmId, and an upsert reports
\* "inserted" (the run counts the entry as added) exactly when no record of
\* the wmId was stored; then exactly one is stored afterwards, otherwise the
\* store is unchanged.
C4_UniqueKey ==
  [][ /\ UniqueWmId(store')
      /\ \A t \in Tasks :
           (ItemStep(t) /\ SiteOf(Head(task[t].items).wmId) \notin task[t].blockedDomains)
             => LET id    == Head(task[t].items).wmId
                    known == id \in StoredIds(store)
                IN  /\ (syncState'.mentionsAdded = syncState.mentionsAdded + 1) <=> ~known
                    /\ known => store' = store /\ syncState'.mentionsAdded = syncState.mentionsAdded
                    /\ Cardinality({r \in store' : r.wmId = id}) = 1 ]_vars

\* one run has had an upsert that inserted and an upsert of a wmId that was
\* stored, and both records are stored once
C4_Witness ==
  \E t \in Tasks, id \in Ids, other \in Ids :
    /\ id \in task[t].kept
    /\ other # id /\ other \in task[t].fOpen \ Prior(t)
    /\ syncState.mentionsAdded >= 2
    /\ Cardinality({r \in store : r.wmId = id}) = 1
    /\ Cardinality({r \in store : r.wmId = other}) = 1

\* C5: an incremental run reads its watermark once, as the highest wmId
\* stored when it started (0 for an empty store); every page it fetches
\* holds only entries above that watermark, and an oldest-first feed starts
\* with the entry right after it (entry 1 for watermark 0).
C5_Watermark ==
  \A t \in Tasks :
    (task[t].kind = "incremental" /\ (Loaded(t) \/ task[t].pc = "getBlocked")) =>
      LET w == task[t].sinceId
          A == task[t].atStart
      IN  /\ A = {} => w = 0
          /\ A # {} => w \in A /\ \A i \in A : i <= w
          /\ \A k \in 1..Len(task[t].items) : task[t].items[k].wmId > w
          /\ \A i \in task[t].fOpen : i > w
          /\ (~feedDesc /\ task[t].pc = "items" /\ task[t].page = 0
                /\ Len(task[t].items) = task[t].pageLen)
               => task[t].items[1].wmId = w + 1

\* a run with watermark 1 has fetched a full page of newer entries and is at
\* its second page with the same watermark
C5_Witness ==
  \E t \in Tasks :
    /\ task[t].kind = "incremental" /\ task[t].pc = "fetchPage"
    /\ task[t].sinceId = 1 /\ task[t].page = 1
    /\ task[t].atStart = {1} /\ task[t].fOpen = {2, 3}

\* C6: when the page loop of a run has ended (no error, no moderation),
\* mentionsFiltered is the number of fetched entries of a domain of the
\* run's blocked set, mentionsAdded is the number of fetched entries of
\* other domains that were not stored, the store holds what it held plus
\* exactly those entries, and the counts returned are these counts.
C6_Counts ==
  /\ \A t \in Tasks :
       Ingested(t) =>
         /\ syncState.mentionsFiltered = task[t].fBlocked
         /\ syncState.mentionsAdded = Cardinality(task[t].fOpen \ Prior(t))
         /\ StoredIds(store) = Prior(t) \cup task[t].fOpen
  /\ lastReturn.tag = "ok" =>
       /\ lastReturn.mentionsAdded = syncState.mentionsAdded
       /\ lastReturn.mentionsFiltered = syncState.mentionsFiltered

\* the feed holds 1, 2, 3, the domain of entry 2 is blocklisted: the run
\* added 2, filtered 1, and the store holds 1 and 3
C6_Witness ==
  \E t \in Tasks :
    /\ task[t].kind = "incremental" /\ Ingested(t)
    /\ remoteN = 3 /\ task[t].atStart = {}
    /\ task[t].blockedDomains = {SiteOf(2)}
    /\ syncState.mentionsAdded = 2 /\ syncState.mentionsFiltered = 1
    /\ StoredIds(store) = {1, 3}

\* C7: an incremental sync that starts right after a successful full sync,
\* with the feed as it was when the full sync began, adds nothing: its
\* mentionsAdded stays 0, the stored wmIds stay the same, and it returns
\* mentionsAdded = 0.
C7_FullThenIncremental ==
  /\ \A t \in Tasks :
       (chain = "incr" /\ task[t].kind = "incremental") =>
         /\ syncState.mentionsAdded = 0
         /\ StoredIds(store) = task[t].atStart
  /\ (chain = "incrDone" /\ lastReturn.tag = "ok") => lastReturn.mentionsAdded = 0

\* the incremental sync after a full sync that stored entries has returned
C7_Witness ==
  /\ chain = "incrDone"
  /\ lastReturn.tag = "ok" /\ lastReturn.mentionsAdded = 0
  /\ Cardinality(store) >= 2 /\ remoteN = MaxId

\* the entries of the feed whose domain is not in the run's blocked set
RemoteOpen(t) == {id \in 1..remoteN : SiteOf(id) \notin task[t].blockedDomains}

\* C8: a full run fetches with no watermark and has cleared the store when
\* it makes its first fetch, so the store holds fetched entries only; when
\* its page loop has ended and the feed did not change meanwhile, the stored
\* wmIds are exactly the feed's entries outside the run's blocked set, and
\* mentionsAdded is their number.
C8_FullSync ==
  \A t \in Tasks :
    task[t].kind = "full" =>
      /\ task[t].sinceId = 0
      /\ (task[t].pc = "getBlocked" \/ (task[t].pc = "fetchPage" /\ task[t].page = 0))
           => store = {}
      /\ Loaded(t) =>
           /\ StoredIds(store) \subseteq task[t].fOpen
           /\ task[t].pc # "items" => StoredIds(store) = task[t].fOpen
      /\ (Ingested(t) /\ chain = "full") =>
           /\ StoredIds(store) = RemoteOpen(t)
           /\ syncState.mentionsAdded = Cardinality(RemoteOpen(t))

\* a full run over a store that held records and a blocklist that is not
\* empty has ended its page loop
C8_Witness ==
  \E t \in Tasks :
    /\ task[t].kind = "full" /\ Ingested(t) /\ chain = "full"
    /\ task[t].atStart = {1, 3} /\ task[t].blockedDomains # {}
    /\ remoteN = 3 /\ syncState.mentionsAdded = 2 /\ syncState.mentionsFiltered = 1

\* C9: an error in a started run ends the run: the caller gets {error} with
\* the message, syncState.lastError holds it, syncing is cleared, and no run
\* is in progress; no exception leaves a started run (the only exception is
\* the TypeError of a call without an argument, before anything starts).
C9_ErrorsCaptured ==
  /\ (lastReturn.tag = "error" /\ lastReturn.error \notin {NoDbMsg, BusyMsg}) =>
       /\ syncState.lastError = lastReturn.error
       /\ ~syncState.syncing
       /\ Running = {}
  /\ lastReturn.tag = "throw" => lastReturn.error = TypeErrorMsg

\* a run failed at a page fetch after it had stored entries
C9_Witness ==
  /\ lastReturn.tag = "error"
  /\ lastReturn.error = ErrorMessage("fetchPage")
  /\ syncState.lastError = ErrorMessage("fetchPage")
  /\ syncState.mentionsAdded >= 1 /\ store # {}

\* C10 as claimed: a call without a reachable store returns the structured
\* "No database available" error, from runSync and from runFullSync alike,
\* and that error is in syncState.lastError.
C10_StoreUnavailable ==
  /\ lastReturn.tag # "throw"
  /\ (lastReturn.tag = "error" /\ lastReturn.error = NoDbMsg) =>
       syncState.lastError = NoDbMsg

\* C11: a failed run keeps what it stored. After a failure every record the
\* run had upserted is in the store; the incremental run that follows finds
\* them stored when it starts, and its watermark is the highest wmId then
\* stored, so no lower than any of them.
C11_PartialProgress ==
  /\ (lastReturn.tag = "error" /\ lastReturn.error \notin {NoDbMsg, BusyMsg}) =>
       /\ lastReturn.upserted \subseteq StoredIds(store)
       /\ \A i \in lastReturn.upserted : i <= GetMaxWmId(store)
  /\ \A t \in Tasks :
       (task[t].kind = "incremental" /\ (Loaded(t) \/ task[t].pc = "getBlocked")) =>
         /\ task[t].after \subseteq task[t].atStart
         /\ task[t].sinceId = SetMax(task[t].atStart)
         /\ \A i \in task[t].after : i <= task[t].sinceId

\* a run stored the first page (1, 2) and failed; the incremental run after
\* it has watermark 2 and fetches entry 3
C11_Witness ==
  \E t \in Tasks :
    /\ task[t].kind = "incremental" /\ task[t].pc = "items"
    /\ task[t].after = {1, 2} /\ task[t].sinceId = 2
    /\ Len(task[t].items) = 1 /\ task[t].items[1].wmId = 3

\* C12: a failed page fetch is not retried. The step that handles it ends
\* the run as a failed run: the caller is idle again and has the fetch's
\* error, syncing is cleared, lastError is the fetch's error; no record is
\* written, no cache is touched (no enrichment) and lastSync and the
\* counters are as they were.
C12_NoRetry ==
  [][ \A t \in Tasks :
        (SyncFailed(t) /\ task[t].pc = "fetchPage") =>
          /\ task'[t].pc = "idle" /\ Running' = {}
          /\ lastReturn'.tag = "error" /\ lastReturn'.error = ErrorMessage("fetchPage")
          /\ syncState' = [syncState EXCEPT !.syncing = FALSE,
                                            !.lastError = ErrorMessage("fetchPage")]
          /\ UNCHANGED <<dbVars, memoryCache>> ]_vars

\* the fetch of the first page failed while the feed held entries: nothing
\* is stored, no sync has completed, no run is in progress
C12_Witness ==
  /\ lastReturn.tag = "error" /\ lastReturn.error = ErrorMessage("fetchPage")
  /\ lastReturn.upserted = {} /\ store = {}
  /\ remoteN = MaxId /\ Running = {}
  /\ syncState.lastSync = NoTime /\ ~syncState.syncing

\* the record as unhideByDomain leaves it
Restored(r) == [r EXCEPT !.hidden = FALSE, !.hiddenAt = NoTime, !.hiddenReason = Null]

\* C13: the unhide step of unblocking a domain restores exactly the records
\* of that domain whose hiddenReason is "blocklist"; every other record,
\* the records of the domain hidden with reason "manual" or "privacy" and
\* the records of other domains among them, is stored as it was.
C13_UnblockUnhides ==
  [][ UnblockUnhide =>
        /\ StoredIds(store') = StoredIds(store)
        /\ Cardinality(store') = Cardinality(store)
        /\ \A r \in store :
             IF r.sourceDomain = mod.domain /\ r.hiddenReason = "blocklist"
             THEN Restored(r) \in store'
             ELSE r \in store' ]_vars

\* a.test was unblocked: one of its records was restored, another one is
\* hidden with reason "manual" as before, and a record of b.test is stored
C13_Witness ==
  /\ mod.pc = "idle" /\ mod.reason = "unblocked" /\ mod.domain = "a.test"
  /\ mod.count = 1
  /\ \E r1, r2, r3 \in store :
       /\ r1.sourceDomain = "a.test" /\ r1.hidden /\ r1.hiddenReason = "manual"
       /\ r2.sourceDomain = "a.test" /\ ~r2.hidden /\ r2.hiddenReason = Null
       /\ r3.sourceDomain = "b.test"

\* C14 as claimed: every stored record with hidden = true and hiddenReason =
\* "blocklist" is of a domain that is in the blocklist now or was in it
\* earlier (here no entry is ever removed from the blocklist, so a domain
\* that was in it is in it), also between the two writes of the block
\* handler and after a failed blocklist write.
C14_HiddenImpliesBlocked ==
  \A r \in store :
    (r.hidden /\ r.hiddenReason = "blocklist") =>
      r.sourceDomain \in GetBlockedDomainSet(blocklist)

\* C16 as claimed: every stored record of a domain that is in the blocklist
\* is hidden, whatever sync runs did while or after the block handler ran.
C16_BlockedDomainHidden ==
  \A r \in store :
    r.sourceDomain \in GetBlockedDomainSet(blocklist) => r.hidden

\* C15 as claimed: when a.test is blocklisted with reason "privacy" (the
\* privacy removal has deleted its records and written the entry) and an
\* incremental sync that was called after that has ended its page loop, no
\* record of a.test is stored.
C15_PrivacyRemoved ==
  \A t \in Tasks :
    ( /\ task[t].kind = "incremental" /\ Ingested(t)
      /\ "a.test" \in task[t].listed
      /\ \E e \in blocklist : e.domain = "a.test" /\ e.reason = "privacy" )
      => \A r \in store : r.sourceDomain # "a.test"

\* C17 as claimed: a block of a domain that has a blocklist entry leaves
\* exactly one entry of that domain, with the reason of this call, with
\* mentionsHidden raised by this call's count, and with blockedAt unchanged.
C17_BlockIdempotent ==
  [][ (BlockInsert /\ \E e \in blocklist : e.domain = mod.domain) =>
        LET old == FirstOf(blocklist, mod.domain)
        IN  /\ Cardinality({e \in blocklist' : e.domain = mod.domain}) = 1
            /\ \A e \in blocklist' :
                 e.domain = mod.domain =>
                   /\ e.reason = mod.reason
                   /\ e.mentionsHidden = old.mentionsHidden + mod.count
                   /\ e.blockedAt = old.blockedAt ]_vars

\* C18: while enrichMissingPhotos runs (and nothing else writes), each step
\* keeps every record, changes only authorPhoto and authorUrl, only in the
\* records of one domain, and leaves an author field that had a value with
\* that value.
C18_EnrichKeeps ==
  [][ (\E t \in Tasks : task[t].pc \in {"enrich", "discover", "complete"}) =>
        /\ Cardinality(store') = Cardinality(store)
        /\ \E d \in Domains :
             \A r \in store :
               \E q \in store' :
                 /\ q = [r EXCEPT !.authorPhoto = q.authorPhoto, !.authorUrl = q.authorUrl]
                 /\ r.sourceDomain # d => q = r
                 /\ r.authorPhoto # Null => q.authorPhoto = r.authorPhoto
                 /\ r.authorUrl # Null => q.authorUrl = r.authorUrl ]_vars

\* enrichment has filled the empty author fields of entry 3 of a.test from
\* the h-card of a.test, and entry 1 of a.test has the photo it came with
C18_Witness ==
  \E r1, r3 \in store :
    /\ r1.wmId = 1 /\ r1.authorPhoto = "https://a.test/me.jpg"
    /\ r1.authorUrl = "https://a.test/"
    /\ r3.wmId = 3 /\ r3.authorPhoto = "https://a.test/photo.jpg"
    /\ r3.authorUrl = "https://a.test/"

\* the persistent entries of domain that are not older than CACHE_TTL_MS
NotOlder(d) ==
  {e \in hcardCache : e.domain = d /\ e.fetchedAt # NoTime /\ now - e.fetchedAt <= CACHE_TTL_MS}

\* C19: discoverAuthorData resolves in a fixed order. With the domain in the
\* memory cache it fetches nothing and leaves both caches as they are;
\* otherwise, with a persistent entry not older than CACHE_TTL_MS (that could
\* be read), it fetches nothing, leaves the persistent cache and copies the
\* entry into the memory cache; only otherwise it fetches the homepage.
C19_ResolutionOrder ==
  [][ \A t \in Tasks, d \in Domains, rf, ff, wf \in BOOLEAN :
        EnrichDomain(t, d, rf, ff, wf, FALSE) =>
          LET hit == \E e \in memoryCache : e.domain = d
          IN  /\ hit =>
                   /\ task'[t].fetched = task[t].fetched
                   /\ UNCHANGED <<memoryCache, hcardCache>>
              /\ (~hit /\ ~rf /\ NotOlder(d) # {}) =>
                   /\ task'[t].fetched = task[t].fetched
                   /\ hcardCache' = hcardCache
                   /\ \E e \in NotOlder(d) :
                        memoryCache' = memoryCache \cup
                          {[domain |-> d, photoUrl |-> e.photoUrl, authorUrl |-> e.authorUrl]}
              /\ (~hit /\ (rf \/ NotOlder(d) = {})) =>
                   task'[t].fetched = task[t].fetched \cup {d} ]_vars

\* in one run, with the memory cache cleared before it, the persistent
\* entry of b.test, one tick old, answered without a fetch and is in the
\* memory cache again, while the homepage of a.test was fetched
C19_Witness ==
  \E t \in Tasks, e \in hcardCache :
    /\ task[t].pc = "complete" /\ task[t].fetched = {"a.test"}
    /\ e.domain = "b.test" /\ now - e.fetchedAt = CACHE_TTL_MS
    /\ \E m \in memoryCache : m.domain = "b.test"

\* what a live discovery of d returns: nothing when the fetch failed
LiveData(d, ff) == IF ff THEN NoAuthorData ELSE ParseHcard(d)

\* the memory cache holds exactly one entry of d, with data
InMemory(mem, d, data) ==
  {m \in mem : m.domain = d} =
    {[domain |-> d, photoUrl |-> data.photoUrl, authorUrl |-> data.authorUrl]}

\* the persistent cache holds exactly one entry of d, with data, written at t
InPersistent(hc, d, data, t) ==
  {c \in hc : c.domain = d} =
    {[domain |-> d, photoUrl |-> data.photoUrl, authorUrl |-> data.authorUrl,
      fetchedAt |-> t]}

\* C20 as claimed: after a live discovery of a domain, whatever the fetch
\* gave, the memory cache and the persistent cache hold the entry of the
\* domain with the returned data.
C20_Original ==
  [][ \A t \in Tasks, d \in Domains, rf, ff, wf \in BOOLEAN :
        (EnrichDomain(t, d, rf, ff, wf, FALSE) /\ d \in task'[t].fetched) =>
          /\ InMemory(memoryCache', d, LiveData(d, ff))
          /\ InPersistent(hcardCache', d, LiveData(d, ff), now) ]_vars

\* C20, amended: after a live discovery of a domain, whatever the fetch
\* gave, the memory cache holds the entry of the domain with the returned
\* data; the persistent cache holds it too, stamped with the time of the
\* discovery, unless its write failed, and then it is as it was. A discover
\* of a domain that is in the memory cache fetches nothing.
C20_NegativeCaching ==
  [][ \A t \in Tasks, d \in Domains, rf, ff, wf \in BOOLEAN :
        EnrichDomain(t, d, rf, ff, wf, FALSE) =>
          /\ d \in task'[t].fetched =>
               /\ InMemory(memoryCache', d, LiveData(d, ff))
               /\ ~wf => InPersistent(hcardCache', d, LiveData(d, ff), now)
               /\ wf => hcardCache' = hcardCache
          /\ (\E m \in memoryCache : m.domain = d) => d \notin task'[t].fetched ]_vars

\* the fetch of the homepage of a.test failed and the fetch of b.test found
\* no h-card: both caches hold the empty result of both domains
C20_Witness ==
  \E t \in Tasks :
    /\ task[t].fetched = {"a.test", "b.test"}
    /\ InMemory(memoryCache, "a.test", NoAuthorData)
    /\ InMemory(memoryCache, "b.test", NoAuthorData)
    /\ \E c \in hcardCache : c.domain = "a.test" /\ c.photoUrl = Null /\ c.authorUrl = Null
    /\ \E c \in hcardCache : c.domain = "b.test" /\ c.photoUrl = Null /\ c.authorUrl = Null

\* the persistent entries of domain that record a discovery attempt made
\* more than CACHE_TTL_MS ago
Stale(d) ==
  {e \in hcardCache : e.domain = d /\ e.fetchedAt # NoTime /\ now - e.fetchedAt > CACHE_TTL_MS}

\* C21 as claimed: a discover of a domain whose last discovery attempt (the
\* one its persistent entry records) is older than CACHE_TTL_MS fetches the
\* homepage again, also when the memory cache of the process still holds
\* the result of that attempt.
C21_StaleRefetched ==
  [][ \A t \in Tasks, d \in Domains, rf, ff, wf \in BOOLEAN :
        (EnrichDomain(t, d, rf, ff, wf, FALSE) /\ Stale(d) # {}) =>
          d \in task'[t].fetched ]_vars

\* what discoverAuthorData has to return for d: the memory entry, else the
\* persistent entry not older than CACHE_TTL_MS when it could be read, else
\* what the homepage gave, nothing when the fetch failed
Expected(d, rf, ff) ==
  IF \E m \in memoryCache : m.domain = d
  THEN LET m == CHOOSE x \in memoryCache : x.domain = d
       IN  [photoUrl |-> m.photoUrl, authorUrl |-> m.authorUrl]
  ELSE IF ~rf /\ NotOlder(d) # {}
  THEN LET e == CHOOSE x \in NotOlder(d) : TRUE
       IN  [photoUrl |-> e.photoUrl, authorUrl |-> e.authorUrl]
  ELSE LiveData(d, ff)

\* C22: discoverAuthorData never fails. Whatever fails inside it (the read
\* of the persistent cache, the fetch of the homepage, the write of the
\* persistent cache), the caller gets a {photoUrl, authorUrl} value and
\* goes on with its loop, no error reaches syncState or the caller of the
\* run, and the value is the same whether the cache write failed or not.
C22_DiscoverNeverFails ==
  [][ \A t \in Tasks, d \in Domains, rf, ff, wf \in BOOLEAN :
        EnrichDomain(t, d, rf, ff, wf, FALSE) =>
          /\ task'[t].pc \in {"discover", "complete"}
          /\ DOMAIN task'[t].discovered = {"photoUrl", "authorUrl"}
          /\ task'[t].discovered = Expected(d, rf, ff)
          /\ UNCHANGED <<syncState, lastReturn>> ]_vars

\* a run has swallowed a failed cache read, a failed fetch and a failed
\* cache write, has got the h-card of a.test all the same and is about to
\* return
C22_Witness ==
  \E t \in Tasks :
    /\ task[t].pc = "complete"
    /\ task[t].swallowed = {"read", "fetch", "write"}
    /\ task[t].discovered = ParseHcard("a.test")
    /\ syncState.lastError = Null

\* C23: an error inside enrichment never fails the run. Every step of a run
\* that is in enrichMissingPhotos, whatever fails in it, either goes on
\* with enrichment and leaves syncState and the caller's result alone, or
\* ends the run as a success: the counts object with mentionsAdded and
\* mentionsFiltered of the ingestion and mentionsEnriched as counted so
\* far, lastSync stamped, syncing cleared, lastError null.
C23_EnrichmentContained ==
  [][ \A t \in Tasks :
        (task[t].pc \in {"enrich", "discover", "complete"} /\ task'[t] # task[t]) =>
          \/ /\ task'[t].pc \in {"discover", "complete"}
             /\ UNCHANGED <<syncState, lastReturn>>
          \/ /\ task'[t].pc = "idle"
             /\ lastReturn' = OkReturn(t, syncState.mentionsAdded, syncState.mentionsFiltered,
                                       task[t].totalUpdated)
             /\ syncState' = [syncState EXCEPT !.lastSync = now, !.syncing = FALSE]
             /\ syncState'.lastError = Null ]_vars

\* a run stored entries 1, 2, 3 and discovered the h-card of a.test, the
\* write of the author fields failed: entry 3 has no photo, and the run
\* returned as a success with nothing enriched
C23_Witness ==
  /\ lastReturn.tag = "ok" /\ lastReturn.mentionsAdded = 3
  /\ lastReturn.mentionsEnriched = 0
  /\ InMemory(memoryCache, "a.test", ParseHcard("a.test"))
  /\ \E r \in store : r.wmId = 3 /\ r.authorPhoto = Null
  /\ syncState.lastError = Null /\ syncState.lastSync # NoTime /\ ~syncState.syncing

\* C24: getSyncState returns a copy of syncState at any time, also during a
\* run; the call changes nothing, assignments to the returned object do
\* not change syncState (so a later call returns syncState as the engine
\* left it), and no step of the engine changes a returned object.
C24_Snapshot ==
  [][ /\ ReadStatus =>
           /\ snapshot'.value = syncState
           /\ UNCHANGED <<syncState, dbVars, memoryCache, task, lastReturn>>
      /\ MutateSnapshot => syncState' = syncState
      /\ (~ReadStatus /\ ~MutateSnapshot) => snapshot' = snapshot ]_vars

\* a reader took the state during a run (syncing, one entry filtered so
\* far) and assigned to it; the run went on and syncState has the run's
\* values
C24_Witness ==
  /\ snapshot.value.syncing /\ snapshot.value.mentionsFiltered = 1
  /\ snapshot.value.lastError = ReaderMark /\ snapshot.value.mentionsAdded = 0
  /\ syncState.syncing /\ syncState.lastError = Null
  /\ syncState.mentionsAdded = 2 /\ syncState.mentionsFiltered = 1

\* the step ends a run of some caller with the counts object
Succeeds ==
  \E t \in Tasks : task[t].pc # "idle" /\ task'[t].pc = "idle" /\ lastReturn'.tag = "ok"

\* C25: lastSync is stamped with the time of the step that ends a run as a
\* success, and no other step changes it: not the failure of a run, not a
\* call rejected as already running, not a call rejected for a missing
\* database.
C25_LastSyncOnSuccess ==
  [][ /\ Succeeds => syncState'.lastSync = now
      /\ ~Succeeds => syncState'.lastSync = syncState.lastSync ]_vars

\* a run succeeded at tick 1; at tick 2 a run has failed at a page fetch,
\* and lastSync is the time of the success
C25_Witness ==
  /\ syncState.lastSync = 1 /\ now = 2
  /\ lastReturn.tag = "error" /\ lastReturn.error = ErrorMessage("fetchPage")
  /\ syncState.lastError = ErrorMessage("fetchPage")

\* the step starts a run of t
Starts(t) == task[t].pc = "idle" /\ task'[t].pc # "idle"

\* C26: the counters are those of the most recent run. The step that
\* starts a run sets mentionsAdded and mentionsFiltered to 0 and lastError
\* to null; up to the run's first fetch both counters are 0, and at no
\* time do they exceed the number of entries the run itself has fetched;
\* the step that ends a run as a success returns the mentionsAdded and
\* mentionsFiltered that syncState holds.
C26_CountsOfLastRun ==
  [][ /\ \A t \in Tasks :
           Starts(t) =>
             /\ syncState'.mentionsAdded = 0 /\ syncState'.mentionsFiltered = 0
             /\ syncState'.lastError = Null
      /\ \A t \in Tasks :
           task'[t].pc # "idle" =>
             /\ ( /\ task'[t].page = 0
                  /\ task'[t].pc \in {"ensureIndexes", "getMaxWmId", "deleteAll",
                                      "getBlocked", "fetchPage"} )
                  => syncState'.mentionsAdded = 0 /\ syncState'.mentionsFiltered = 0
             /\ syncState'.mentionsAdded <= Cardinality(task'[t].fOpen)
             /\ syncState'.mentionsFiltered <= task'[t].fBlocked
      /\ Succeeds =>
           /\ lastReturn'.mentionsAdded = syncState'.mentionsAdded
           /\ lastReturn'.mentionsFiltered = syncState'.mentionsFiltered ]_vars

\* earlier runs stored entries 1 and 2 and counted them; the run that is
\* about to return fetched entry 3 alone, and the counters say one added
C26_Witness ==
  \E t \in Tasks :
    /\ task[t].pc = "complete" /\ task[t].kind = "incremental"
    /\ task[t].atStart = {1, 2} /\ task[t].fOpen = {3}
    /\ syncState.mentionsAdded = 1 /\ syncState.mentionsFiltered = 0

\* C27: a call that is answered "Sync already in progress" is a no-op. It
\* is answered so only while a run is in progress, and it leaves syncing,
\* lastError, lastSync, mentionsAdded and mentionsFiltered, the position
\* and the locals of the run in progress, the store, the blocklist and the
\* caches as they were.
C27_BusyIsNoOp ==
  [][ \A t \in Tasks, arg \in DbArgs :
        ( /\ RunSync(t, arg) \/ RunFullSync(t, arg)
          /\ lastReturn'.tag = "error" /\ lastReturn'.error = BusyMsg ) =>
          /\ syncState.syncing /\ Running \ {t} # {}
          /\ syncState' = syncState
          /\ \A u \in Tasks : task'[u] = task[u]
          /\ store' = store /\ blocklist' = blocklist /\ blockIndex' = blockIndex
          /\ hcardCache' = hcardCache /\ memoryCache' = memoryCache ]_vars

\* a call was rejected while a full run that has added three entries is
\* discovering h-cards
C27_Witness ==
  \E t, u \in Tasks :
    /\ t # u
    /\ lastReturn = ErrReturn(u, BusyMsg)
    /\ task[t].kind = "full" /\ task[t].pc = "discover"
    /\ syncState.syncing /\ syncState.mentionsAdded = 3

\* C28: every started run ends, completed or failed, with syncing cleared;
\* whenever no run is in progress syncing is false, so the next call with
\* a database starts a run.
C28_RunsEnd ==
  /\ \A t \in Tasks :
       (task[t].pc # "idle") ~> (task[t].pc = "idle" /\ ~syncState.syncing)
  /\ [](Running = {} => ~syncState.syncing)

\* after a run that ended as a success another run was started and is at
\* its second page
C28_Witness ==
  \E t \in Tasks :
    /\ syncState.lastSync # NoTime /\ syncState.syncing
    /\ task[t].kind = "full" /\ task[t].pc = "fetchPage" /\ task[t].page = 1
    /\ task[t].atStart # {}

\* C29: a run reads the blocked-domain set once, before its first fetch,
\* as the blocklist then is, and keeps that set to its end; each entry is
\* filtered or stored by that set, whatever the blocklist holds by then (an
\* entry of a domain blocked meanwhile is stored); and the blocked set of a
\* run holds every domain that was blocklisted when the run was called.
C29_BlockedSetOnce ==
  [][ \A t \in Tasks :
        /\ LoadBlocked(t) =>
             /\ task[t].page = 0 /\ task[t].fOpen = {} /\ task[t].fBlocked = 0
             /\ task'[t].blockedDomains = GetBlockedDomainSet(blocklist)
        /\ (Loaded(t) /\ task'[t].pc # "idle") =>
             task'[t].blockedDomains = task[t].blockedDomains
        /\ ItemStep(t) =>
             LET id == Head(task[t].items).wmId
             IN  IF SiteOf(id) \in task[t].blockedDomains
                 THEN /\ store' = store
                      /\ syncState'.mentionsFiltered = syncState.mentionsFiltered + 1
                 ELSE id \in StoredIds(store')
        /\ Loaded(t) => task[t].listed \subseteq task[t].blockedDomains ]_vars

\* a.test was blocked while a run was in progress, and that run stored an
\* entry of a.test, which is visible; the run after it has a.test in its
\* set and has filtered an entry of a.test
C29_Witness ==
  \E t \in Tasks :
    /\ Loaded(t) /\ task[t].kind = "incremental"
    /\ task[t].blockedDomains = {"a.test"} /\ task[t].fBlocked >= 1
    /\ syncState.mentionsFiltered >= 1
    /\ \E r \in store : r.sourceDomain = "a.test" /\ ~r.hidden

\* two URLs that are equal up to one trailing slash
SameUpToSlash(a, b) == a = b \/ a = b \o "/" \/ b = a \o "/"

\* the stored records that are not hidden and pass the filters of the query
\* that reply answers
Selected ==
  {r \in store :
     /\ r.hidden # TRUE
     /\ reply.wmProperty # Null => r.wmProperty = reply.wmProperty
     /\ reply.target # Null => SameUpToSlash(r.wmTarget, reply.target)}

\* C30 as claimed: the records getWebmentions returns for the public API
\* (asked without ?page=, or for page 0) are exactly the stored records
\* that are not hidden, have the property asked for and have the target
\* asked for up to one trailing slash.
C30_Original ==
  (reply.tag = "feed" /\ reply.page = 0) =>
    {reply.items[k] : k \in 1..Len(reply.items)} = Selected

\* the number of selected records that are newer than r
Newer(r) == Cardinality({x \in Selected : x.wmReceived > r.wmReceived})

\* C30, amended: getWebmentions answers with one page. total is the number
\* of the stored records that are not hidden, have the property asked for
\* and have the target asked for up to one trailing slash; items are, newest
\* first, those of them with page * perPage to (page + 1) * perPage - 1
\* newer ones among them, so never a hidden record, and the same for a
\* target with and without its trailing slash.
C30_PublicRead ==
  reply.tag = "feed" =>
    /\ reply.total = Cardinality(Selected)
    /\ {reply.items[k] : k \in 1..Len(reply.items)} =
         {r \in Selected : /\ Newer(r) >= reply.page * ApiPerPage
                           /\ Newer(r) < (reply.page + 1) * ApiPerPage}
    /\ \A k \in 1..Len(reply.items) : Newer(reply.items[k]) = reply.page * ApiPerPage + k - 1
    /\ \A k \in 1..Len(reply.items) : reply.children[k].wmId = reply.items[k].wmId

\* asked for the post with a trailing slash while entry 2 is hidden and
\* entries 1 and 3 are visible: the answer is entry 1 alone, whose target
\* is written without the slash
C30_Witness ==
  /\ reply.tag = "feed" /\ reply.target = PostUrl \o "/" /\ reply.wmProperty = Null
  /\ Len(reply.items) = 1 /\ reply.items[1].wmId = 1 /\ reply.total = 1
  /\ \E r \in store : r.wmId = 2 /\ r.hidden
  /\ \E r \in store : r.wmId = 3 /\ ~r.hidden

\* C31 as claimed: the dashboard lists only records that are not hidden
\* for filter=visible and only records that are hidden for filter=hidden.
C31_VisibilityFilter ==
  reply.tag = "dashboard" =>
    \A k \in 1..Len(reply.webmentions) :
      /\ reply.filter = "visible" => reply.webmentions[k].hidden # TRUE
      /\ reply.filter = "hidden" => reply.webmentions[k].hidden = TRUE

\* the page loop of t has ended and the feed is the one its first fetch saw
LoopEnded(t) ==
  /\ task[t].pc = "enrich"
  /\ task[t].requested # <<>>
  /\ remoteN = task[t].feedAt

\* the number of entries the feed lists beyond the watermark of t
Beyond(t) == Len(FeedSince(remoteN, feedDesc, task[t].sinceId))

\* C32: a run fetches the pages 0, 1, 2, ... in this order, fetches no page
\* after a page that is empty or shorter than the page size, and, when the
\* feed lists n entries beyond the watermark during the whole loop, ends the
\* loop after exactly n \div PerPage + 1 fetches.
C32_PageLoop ==
  \A t \in Tasks :
    /\ \A k \in 1..Len(task[t].requested) :
         /\ task[t].requested[k].page = k - 1
         /\ k < Len(task[t].requested) => task[t].requested[k].len = PerPage
    /\ LoopEnded(t) => Len(task[t].requested) = (Beyond(t) \div PerPage) + 1

\* a loop over an unchanged feed that ended with an empty page after a full one
C32_Witness ==
  \E t \in Tasks :
    /\ LoopEnded(t)
    /\ Len(task[t].requested) = 2
    /\ task[t].requested[1].len = PerPage
    /\ task[t].requested[2].len = 0

\* q is r, or r with author fields that were empty filled
FilledOnly(r, q) ==
  /\ q = [r EXCEPT !.authorPhoto = q.authorPhoto, !.authorUrl = q.authorUrl]
  /\ r.authorPhoto # Null => q.authorPhoto = r.authorPhoto
  /\ r.authorUrl # Null => q.authorUrl = r.authorUrl

\* C33: no step of an incremental run deletes a stored record or changes
\* one, other than filling author fields that were empty: every record
\* stored before the step is stored after it with the same moderation
\* fields and content.
C33_IncrementalKeeps ==
  [][ \A t \in Tasks :
        (task[t].kind = "incremental" /\ IncrStep(t)) =>
          \A r \in store : \E q \in store' : FilledOnly(r, q) ]_vars

\* an incremental run has stored a new entry and filled author fields, and
\* a record that was stored before the run is hidden, as moderation left it
C33_Witness ==
  \E t \in Tasks, r, q \in store :
    /\ task[t].kind = "incremental"
    /\ task[t].totalUpdated >= 1
    /\ r.wmId \in task[t].atStart
    /\ r.hidden /\ r.hiddenReason = "manual"
    /\ q.wmId \notin task[t].atStart

\* C34: an iteration of enrichMissingPhotos whose discovery returned neither
\* a photoUrl nor an authorUrl changes no stored record, an iteration that
\* found something changes records of its domain only, totalUpdated grows
\* by the number of records the iteration changed, and the run returns
\* totalUpdated as its enriched count (0 when enrichment never reached its
\* loop).
C34_EnrichWrites ==
  [][ \A t \in Tasks :
        /\ \A d \in Domains, rf, ff, wf, uf \in BOOLEAN :
             (Effective(d, rf, ff, wf, uf) /\ EnrichDomain(t, d, rf, ff, wf, uf)) =>
               LET data == DiscoverAuthorData(d, memoryCache, hcardCache, now, rf, ff)
               IN  /\ (data.photoUrl = Null /\ data.authorUrl = Null) => store' = store
                   /\ \A r \in store \ store' : r.sourceDomain = d
                   /\ IF task'[t].pc = "idle"
                      THEN /\ store' = store
                           /\ lastReturn'.mentionsEnriched = task[t].totalUpdated
                      ELSE task'[t].totalUpdated =
                             task[t].totalUpdated + Cardinality(store \ store')
        /\ SyncComplete(t) => lastReturn'.mentionsEnriched = task[t].totalUpdated
        /\ (\E failed \in BOOLEAN : EnrichStart(t, failed)) =>
             /\ store' = store
             /\ task'[t].pc = "idle" => lastReturn'.mentionsEnriched = 0
             /\ task'[t].pc # "idle" => task'[t].totalUpdated = 0 ]_vars

\* a run returned one enriched record: discovery found nothing for b.test,
\* whose record has no author photo, and found the photo of a.test
C34_Witness ==
  /\ lastReturn.tag = "ok"
  /\ lastReturn.mentionsEnriched = 1
  /\ InMemory(memoryCache, "b.test", NoAuthorData)
  /\ \E r \in store : r.sourceDomain = "b.test" /\ r.authorPhoto = Null
  /\ \E r \in store : r.wmId = 3 /\ r.authorPhoto = ParseHcard("a.test").photoUrl
  /\ \E r \in store : r.wmId = 1

\* C35 as claimed: once the privacy removal of a.test has written its
\* blocklist entry and no run is in progress, no record of a.test is
\* stored, also when a run was in progress during the removal.
C35_PrivacyRace ==
  ( /\ mod.pc = "idle"
    /\ \A t \in Tasks : task[t].pc = "idle"
    /\ \E e \in blocklist : e.domain = "a.test" /\ e.reason = "privacy" )
    => \A r \in store : r.sourceDomain # "a.test"

\* C36 as claimed: when a run failed after it had gone through at least one
\* page, and the page loop of the incremental run called next has ended with
\* the feed as it was at the failure (the blocklist is fixed), every entry
\* of the feed whose domain is not blocklisted is stored.
C36_NothingSkipped ==
  \A t \in Tasks :
    ( /\ task[t].kind = "incremental" /\ Ingested(t)
      /\ task[t].prev.pages >= 1
      /\ task[t].prev.feed = remoteN )
      => \A id \in 1..remoteN :
           SiteOf(id) \notin GetBlockedDomainSet(blocklist) => id \in StoredIds(store)

\* r is not hidden, or hidden by hand or for privacy
NotByBlocklist(r) == ~r.hidden \/ r.hiddenReason \in {"manual", "privacy"}

\* C37: the hide of a block changes only records of the domain that are not
\* hidden (a hidden record keeps its hiddenReason), and the unhide of the
\* unblock that follows it with nothing in between gives every record of
\* the domain that was visible, or hidden with reason "manual" or
\* "privacy", the hidden, hiddenAt and hiddenReason it had before the
\* block; the unhide changes only records hidden with reason "blocklist".
C37_BlockUnblock ==
  [][ /\ \A d \in Domains :
           BlockHide(d) =>
             /\ \A r \in store : (r.hidden \/ r.sourceDomain # d) => r \in store'
             /\ \A r \in store :
                  (r.sourceDomain = d /\ NotByBlocklist(r)) => r \in UnhideByDomain(store', d)
      /\ UnblockUnhide =>
           /\ store' = UnhideByDomain(store, mod.domain)
           /\ \A r \in store :
                (r.sourceDomain # mod.domain \/ r.hiddenReason # "blocklist") => r \in store' ]_vars

\* a.test was blocked and unblocked: the unhide restored one record, a
\* record of a.test hidden by hand is hidden by hand, and the restored
\* record is visible with no hiddenAt and no hiddenReason
C37_Witness ==
  /\ mod.pc = "idle" /\ mod.reason = "unblocked" /\ mod.count = 1
  /\ \A e \in blocklist : e.domain # "a.test"
  /\ \E r \in store : r.sourceDomain = "a.test" /\ r.hidden /\ r.hiddenReason = "manual"
  /\ \E r \in store :
       /\ r.sourceDomain = "a.test"
       /\ ~r.hidden /\ r.hiddenAt = NoTime /\ r.hiddenReason = Null

\* the positions of a full run that has cleared the collection
Cleared(t) == task[t].kind = "full" /\ task[t].pc \notin {"idle", "ensureIndexes", "deleteAll"}

\* C38: when a full run completes (no moderation during the run), every
\* stored record is not hidden and has no hiddenAt and no hiddenReason, the
\* records of entries that were hidden before the run included; when a full
\* run fails after the clear, the store holds only entries the run had
\* fetched and upserted, as upsert stores them, and nothing from before.
C38_FullDiscards ==
  [][ \A t \in Tasks :
        Cleared(t) =>
          /\ (task'[t].pc = "idle" /\ lastReturn'.tag = "ok") =>
               \A r \in store' :
                 ~r.hidden /\ r.hiddenAt = NoTime /\ r.hiddenReason = Null
          /\ SyncFailed(t) =>
               /\ Upserted(task[t]) \subseteq StoredIds(store')
               /\ store' \subseteq {Jf2ToDocument(Item(id)) : id \in task[t].fOpen} ]_vars

\* a full run is about to return: an entry that was stored as hidden when
\* the run was called is stored again, not hidden
C38_Witness ==
  \E t \in Tasks, r \in store :
    /\ task[t].kind = "full" /\ task[t].pc = "complete"
    /\ r.wmId \in task[t].hiddenBefore
    /\ ~r.hidden /\ r.hiddenReason = Null

\* C39 as claimed: once stopSync has returned, no callback of a timer of
\* startSync starts a run, neither the interval's nor the initial sync's.
C39_NoRunAfterStop ==
  [][ (timers.stopped /\ (InitialSync \/ IntervalSync)) =>
        \A t \in Tasks : ~Starts(t) ]_vars

\* C40: every stored record has consistent moderation fields: it is hidden
\* exactly when its hiddenReason is "manual", "blocklist" or "privacy" and
\* its hiddenAt is set, and it is not hidden exactly when it has neither a
\* hiddenReason nor a hiddenAt (over upserts, hides, unhides, hides by
\* domain and unhides by domain).
C40_ModerationFields ==
  \A r \in store :
    /\ r.hidden \in BOOLEAN
    /\ r.hidden <=> (r.hiddenReason \in {"manual", "blocklist", "privacy"}
                       /\ r.hiddenAt # NoTime)
    /\ ~r.hidden <=> (r.hiddenReason = Null /\ r.hiddenAt = NoTime)

\* the unblock's unhide has restored one record, a record was restored by
\* hand before, and the store holds a record hidden by hand next to a
\* visible record of the same domain
C40_Witness ==
  /\ mod.reason = "unblocked" /\ mod.count >= 1
  /\ \E r, q \in store :
       /\ r.sourceDomain = q.sourceDomain
       /\ r.hidden /\ r.hiddenReason = "manual" /\ r.hiddenAt # NoTime
       /\ ~q.hidden /\ q.hiddenReason = Null /\ q.hiddenAt = NoTime
====
